---- MODULE Spec2Model ----
(***************************************************************************)
(* Model of jarvis_mcp/services/datetime_service.py: the key resolver      *)
(* (normalize_date_key, flatten_date_context, parse_time_string,           *)
(* apply_time_modifier, resolve_relative_time, resolve_date_keys) and the  *)
(* context generator (generate_date_context_object).                       *)
(*                                                                         *)
(* Representation.                                                         *)
(*  - A key or a phrase is a sequence of one-character strings, so that    *)
(*    the regular expressions and str methods act on characters.           *)
(*  - An instant string ("2025-01-16T07:00:00Z") is a record               *)
(*    [y, mo, d, h, mi, s, sfx] of its printed fields; sfx is the printed  *)
(*    offset ("Z", "+00:00", "+05:30", "-05:00") and any other sfx is text *)
(*    that datetime.fromisoformat rejects.                                 *)
(*  - A datetime is a record [y, mo, d, h, mi, s, off] with off the UTC    *)
(*    offset of its tzinfo in minutes (microseconds are not modelled: the  *)
(*    code drops them before printing).                                    *)
(*  - A timedelta is a record [days, secs] as CPython normalises it.       *)
(*  - An Optional[str] result is [tag, v] with tag "ok", "none" or, for an *)
(*    exception leaving the function, "raise" (v names the exception).     *)
(***************************************************************************)
EXTENDS Integers, Sequences, FiniteSets, TLC

(***************************************************************************)
(* Characters and str methods                                              *)
(***************************************************************************)

DigitChars == {"0", "1", "2", "3", "4", "5", "6", "7", "8", "9"}

IsDigit(c) == c \in DigitChars

DigitVal(c) ==
    CASE c = "0" -> 0 [] c = "1" -> 1 [] c = "2" -> 2 [] c = "3" -> 3
      [] c = "4" -> 4 [] c = "5" -> 5 [] c = "6" -> 6 [] c = "7" -> 7
      [] c = "8" -> 8 [] c = "9" -> 9

\* str.isspace for the characters of the model: space, tab, newline
IsSpace(c) == c \in {" ", "\t", "\n"}

\* str.lower on one character (the capitals that occur in the model's texts)
LowerChar(c) ==
    CASE c = "A" -> "a" [] c = "F" -> "f" [] c = "L" -> "l" [] c = "M" -> "m"
      [] c = "N" -> "n" [] c = "O" -> "o" [] c = "P" -> "p" [] c = "R" -> "r"
      [] c = "S" -> "s" [] c = "T" -> "t" [] c = "W" -> "w"
      [] OTHER -> c

Lower(s) == [i \in 1..Len(s) |-> LowerChar(s[i])]

\* str.strip(): drop leading and trailing whitespace
Strip(s) ==
    LET Cut(keep) ==
            IF keep = {} THEN <<>>
            ELSE SubSeq(s, CHOOSE i \in keep : \A j \in keep : i <= j,
                           CHOOSE i \in keep : \A j \in keep : j <= i)
    IN  Cut({i \in 1..Len(s) : ~IsSpace(s[i])})

\* a faulty variant: every whitespace character becomes its own "_"
SubSpacesEach(s) == [i \in 1..Len(s) |-> IF IsSpace(s[i]) THEN "_" ELSE s[i]]

\* re.sub(r"\s+", "_", s): every maximal run of whitespace becomes one "_"
RECURSIVE SubSpaces(_)
SubSpaces(s) ==
    IF s = <<>> THEN <<>>
    ELSE IF IsSpace(Head(s))
         THEN IF Len(s) > 1 /\ IsSpace(s[2])
              THEN SubSpaces(Tail(s))
              ELSE <<"_">> \o SubSpaces(Tail(s))
         ELSE <<Head(s)>> \o SubSpaces(Tail(s))

\* a faulty variant: a colon becomes a space
ReplaceColonsBySpaces(s) == [i \in 1..Len(s) |-> IF s[i] = ":" THEN " " ELSE s[i]]

\* str.replace(":", "_")
ReplaceColons(s) == [i \in 1..Len(s) |-> IF s[i] = ":" THEN "_" ELSE s[i]]

normalize_date_key(raw) == ReplaceColons(SubSpaces(Lower(Strip(raw))))

\* a value that is not a str: the name of its type, then the characters str()
\* prints for it (a str is the sequence of its characters alone)
PyInt(n) == <<"int">> \o <<SubSeq("0123456789", n + 1, n + 1)>>

\* isinstance(key, str)
IsStr(key) == key = <<>> \/ Len(key[1]) = 1

\* the characters of a string literal
Chars(str) == [i \in 1..Len(str) |-> SubSeq(str, i, i)]

\* s.startswith(w)
StartsWith(s, w) == Len(w) <= Len(s) /\ \A j \in 1..Len(w) : s[j] = w[j]

\* the text w stands in s at position i
HasAt(s, i, w) == i + Len(w) - 1 <= Len(s) /\ \A j \in 1..Len(w) : s[i + j - 1] = w[j]

\* the length of the (greedy) match of \d* in s at position i
SpanDigits(s, i) ==
    CHOOSE n \in 0..(Len(s) - i + 1) :
        /\ \A j \in i..(i + n - 1) : IsDigit(s[j])
        /\ (i + n > Len(s) \/ ~IsDigit(s[i + n]))

\* int() of the n digits of s at position i
RECURSIVE ToInt(_, _, _)
ToInt(s, i, n) ==
    IF n = 0 THEN 0 ELSE ToInt(s, i, n - 1) * 10 + DigitVal(s[i + n - 1])

(***************************************************************************)
(* Optional results                                                        *)
(***************************************************************************)

Ok(v) == [tag |-> "ok", v |-> v]

None == [tag |-> "none", v |-> "None"]

Raise(exc) == [tag |-> "raise", v |-> exc]

(***************************************************************************)
(* parse_time_string                                                       *)
(***************************************************************************)

AM == <<"a", "m">>

PM == <<"p", "m">>

\* a faulty variant: pm always adds twelve, am never resets
To24AddsTwelve(hour, ampm) == IF ampm = PM THEN hour + 12 ELSE hour

\* the hour of a 12-hour clock reading as the code converts it
To24(hour, ampm) ==
    IF ampm = PM /\ hour # 12 THEN hour + 12
    ELSE IF ampm = AM /\ hour = 12 THEN 0
    ELSE hour

\* (am|pm) at position p of s: the text matched, or <<>>
AmPmAt(s, p) == IF HasAt(s, p, AM) THEN AM ELSE IF HasAt(s, p, PM) THEN PM ELSE <<>>

\* re.match(r"(\d+)_(\d+)(am|pm)", s): [ok, hour, minute, ampm]
MatchWithMinutes(s) ==
    LET Groups(n1, n2, ampm) ==
            IF n1 >= 1 /\ n2 >= 1 /\ ampm # <<>>
            THEN [ok |-> TRUE, hour |-> ToInt(s, 1, n1), minute |-> ToInt(s, n1 + 2, n2),
                  ampm |-> ampm]
            ELSE [ok |-> FALSE, hour |-> 0, minute |-> 0, ampm |-> <<>>]
        Second(n1, n2) == Groups(n1, n2, AmPmAt(s, n1 + 2 + n2))
        First(n1) ==
            Second(n1, IF n1 >= 1 /\ HasAt(s, n1 + 1, <<"_">>)
                       THEN SpanDigits(s, n1 + 2) ELSE 0)
    IN  First(SpanDigits(s, 1))

\* re.match(r"(\d+)(am|pm)", s): [ok, hour, ampm]
MatchHourOnly(s) ==
    LET Groups(n1, ampm) ==
            IF n1 >= 1 /\ ampm # <<>>
            THEN [ok |-> TRUE, hour |-> ToInt(s, 1, n1), ampm |-> ampm]
            ELSE [ok |-> FALSE, hour |-> 0, ampm |-> <<>>]
        First(n1) == Groups(n1, AmPmAt(s, n1 + 1))
    IN  First(SpanDigits(s, 1))

parse_time_string(time_str) ==
    LET Pick(m1, m2) ==
            IF m1.ok THEN [hour |-> To24(m1.hour, m1.ampm), minute |-> m1.minute]
            ELSE IF m2.ok THEN [hour |-> To24(m2.hour, m2.ampm), minute |-> 0]
            ELSE [hour |-> 0, minute |-> 0]
    IN  Pick(MatchWithMinutes(time_str), MatchHourOnly(time_str))

(***************************************************************************)
(* The proleptic Gregorian calendar of datetime (CPython's _pydatetime)    *)
(***************************************************************************)

\* datetime.max.toordinal(): 9999-12-31
MaxOrdinal == 3652059

\* the largest timedelta.days
MaxDeltaDays == 999999999

IsLeap(y) == y % 4 = 0 /\ (y % 100 # 0 \/ y % 400 = 0)

DaysInMonth(y, m) ==
    IF m = 2 THEN (IF IsLeap(y) THEN 29 ELSE 28)
    ELSE IF m \in {4, 6, 9, 11} THEN 30 ELSE 31

DaysBeforeYear(y) ==
    (y - 1) * 365 + ((y - 1) \div 4) - ((y - 1) \div 100) + ((y - 1) \div 400)

RECURSIVE DaysBeforeMonth(_, _)
DaysBeforeMonth(y, m) ==
    IF m = 1 THEN 0 ELSE DaysBeforeMonth(y, m - 1) + DaysInMonth(y, m - 1)

ymd2ord(y, m, d) == DaysBeforeYear(y) + DaysBeforeMonth(y, m) + d

\* divmod(n, size)
DivMod(n, size) == [q |-> n \div size, r |-> n % size]

\* the month (1..12) holding day n (0-based) of the year
MonthOfDay(year, n) ==
    CHOOSE m \in 1..12 : DaysBeforeMonth(year, m) <= n /\ n < DaysBeforeMonth(year, m + 1)

\* _ord2ymd: ordinal -> [y, mo, d], by the 400/100/4/1-year cycles
ord2ymd(ord) ==
    LET InMonth(year, mo, n) ==
            [y |-> year, mo |-> mo, d |-> n - DaysBeforeMonth(year, mo) + 1]
        InYear(year, n) == InMonth(year, MonthOfDay(year, n), n)
        Cycle1(y0, n100, c1) ==
            IF c1.q = 4 \/ n100 = 4 THEN [y |-> y0 + c1.q - 1, mo |-> 12, d |-> 31]
            ELSE InYear(y0 + c1.q, c1.r)
        Cycle4(y0, n100, c4) == Cycle1(y0 + c4.q * 4, n100, DivMod(c4.r, 365))
        Cycle100(y0, c100) == Cycle4(y0 + c100.q * 100, c100.q, DivMod(c100.r, 1461))
        Cycle400(c400) == Cycle100(c400.q * 400 + 1, DivMod(c400.r, 36524))
    IN  Cycle400(DivMod(ord - 1, 146097))

(***************************************************************************)
(* datetime and timedelta                                                  *)
(***************************************************************************)

DT(y, mo, d, h, mi, s, off) ==
    [y |-> y, mo |-> mo, d |-> d, h |-> h, mi |-> mi, s |-> s, off |-> off]

Ordinal(dt) == ymd2ord(dt.y, dt.mo, dt.d)

SecOfDay(dt) == dt.h * 3600 + dt.mi * 60 + dt.s

\* date.weekday(): Monday = 0 .. Sunday = 6
Weekday(dt) == (Ordinal(dt) + 6) % 7

\* timedelta(days=n), timedelta(hours=n), timedelta(minutes=n), normalised
TdDays(n) == [days |-> n, secs |-> 0]

TdHours(n) == [days |-> n \div 24, secs |-> (n % 24) * 3600]

TdMinutes(n) == [days |-> n \div 1440, secs |-> (n % 1440) * 60]

TdAdd(a, b) ==
    [days |-> a.days + b.days + ((a.secs + b.secs) \div 86400),
     secs |-> (a.secs + b.secs) % 86400]

\* a timedelta whose days exceed the type: OverflowError on construction
TdOverflows(td) == td.days > MaxDeltaDays \/ td.days < 0 - MaxDeltaDays

\* the day number and second of day of dt + td
PlusOrdinal(dt, td) == Ordinal(dt) + td.days + ((SecOfDay(dt) + td.secs) \div 86400)

PlusSecOfDay(dt, td) == (SecOfDay(dt) + td.secs) % 86400

\* datetime + timedelta leaves year 1..9999: OverflowError
PlusOverflows(dt, td) == PlusOrdinal(dt, td) \notin 1..MaxOrdinal

\* datetime + timedelta (the tzinfo, hence the offset, is kept)
Plus(dt, td) ==
    LET At(ymd, sod) ==
            DT(ymd.y, ymd.mo, ymd.d, sod \div 3600, (sod % 3600) \div 60, sod % 60, dt.off)
    IN  At(ord2ymd(PlusOrdinal(dt, td)), PlusSecOfDay(dt, td))

\* a faulty variant: the datetime keeps its own offset
KeepOffset(dt) == dt

\* dt.astimezone(timezone.utc) of an aware datetime
ToUTC(dt) == [Plus(dt, [days |-> 0, secs |-> 0 - dt.off * 60]) EXCEPT !.off = 0]

ToUTCOverflows(dt) == PlusOverflows(dt, [days |-> 0, secs |-> 0 - dt.off * 60])

(***************************************************************************)
(* Instant strings: isoformat / fromisoformat                              *)
(***************************************************************************)

Iso(y, mo, d, h, mi, s, sfx) ==
    [y |-> y, mo |-> mo, d |-> d, h |-> h, mi |-> mi, s |-> s, sfx |-> sfx]

\* a text that is no ISO-8601 datetime
NotADate == Iso(0, 0, 0, 0, 0, 0, "not-a-date")

\* the printed offsets of the model and their minutes east of UTC
SfxOffsets == [x \in {"+00:00", "+05:30", "-05:00", "-04:00"} |->
                 CASE x = "+00:00" -> 0 [] x = "+05:30" -> 330
                   [] x = "-05:00" -> 0 - 300 [] x = "-04:00" -> 0 - 240]

OffsetSfx(off) == CHOOSE x \in DOMAIN SfxOffsets : SfxOffsets[x] = off

\* s.replace("Z", "+00:00") if s.endswith("Z") else s
ReplaceZ(str) == IF str.sfx = "Z" THEN [str EXCEPT !.sfx = "+00:00"] ELSE str

\* datetime.fromisoformat accepts the text (otherwise ValueError)
IsoParses(str) ==
    /\ str.sfx \in DOMAIN SfxOffsets
    /\ str.y \in 1..9999 /\ str.mo \in 1..12
    /\ str.d >= 1 /\ str.d <= DaysInMonth(str.y, str.mo)
    /\ str.h \in 0..23 /\ str.mi \in 0..59 /\ str.s \in 0..59

fromisoformat(str) == DT(str.y, str.mo, str.d, str.h, str.mi, str.s, SfxOffsets[str.sfx])

\* dt.isoformat().replace("+00:00", "Z") of a datetime without microseconds
IsoformatZ(dt) ==
    Iso(dt.y, dt.mo, dt.d, dt.h, dt.mi, dt.s,
        IF dt.off = 0 THEN "Z" ELSE OffsetSfx(dt.off))

(***************************************************************************)
(* apply_time_modifier                                                     *)
(***************************************************************************)

\* a faulty variant: the hours of the generator's named slots
time_mapOfSlots ==
    (Chars("morning") :> 7) @@ (Chars("afternoon") :> 14) @@ (Chars("evening") :> 19)
      @@ (Chars("night") :> 20) @@ (Chars("noon") :> 12) @@ (Chars("midnight") :> 0)

\* the hour of each fixed modifier name
time_map ==
    (Chars("morning") :> 7) @@ (Chars("afternoon") :> 13) @@ (Chars("evening") :> 18)
      @@ (Chars("night") :> 21) @@ (Chars("noon") :> 12) @@ (Chars("midnight") :> 0)

\* dt.replace(hour=h, minute=mi, second=0, microsecond=0) raises ValueError
ReplaceTimeFails(h, mi) == h \notin 0..23 \/ mi \notin 0..59

\* a faulty variant: the seconds are kept
ReplaceTimeKeepsSeconds(dt, h, mi) == [dt EXCEPT !.h = h, !.mi = mi]

ReplaceTime(dt, h, mi) == [dt EXCEPT !.h = h, !.mi = mi, !.s = 0]

\* dt.astimezone(tz.utc).replace(microsecond=0).isoformat().replace("+00:00", "Z")
UtcIso(dt) ==
    IF ToUTCOverflows(dt) THEN Raise("OverflowError") ELSE Ok(IsoformatZ(ToUTC(dt)))

\* the time of day a modifier names: [known, hour, minute]
ModifierTime(modifier) ==
    LET Parsed(hm) == [known |-> TRUE, hour |-> hm.hour, minute |-> hm.minute]
    IN  IF modifier \in DOMAIN time_map
        THEN [known |-> TRUE, hour |-> time_map[modifier], minute |-> 0]
        ELSE IF StartsWith(modifier, Chars("at_"))
        THEN Parsed(parse_time_string(SubSeq(modifier, 4, Len(modifier))))
        ELSE [known |-> FALSE, hour |-> 0, minute |-> 0]

apply_time_modifier(base_datetime, modifier) ==
    LET Modify(dt, t) ==
            IF ~t.known THEN UtcIso(dt)
            ELSE IF ReplaceTimeFails(t.hour, t.minute) THEN Raise("ValueError")
            ELSE UtcIso(ReplaceTime(dt, t.hour, t.minute))
        Parse(normalized) ==
            IF ~IsoParses(normalized) THEN None
            ELSE Modify(fromisoformat(normalized), ModifierTime(modifier))
    IN  Parse(ReplaceZ(base_datetime))

(***************************************************************************)
(* resolve_relative_time                                                   *)
(***************************************************************************)

UnitWords == {Chars("minutes"), Chars("hours"), Chars("days")}

\* the unit word (minutes|hours|days) at position p of key, or <<>>
UnitAt(key, p) ==
    LET Pick(units) == IF units = {} THEN <<>> ELSE CHOOSE u \in units : TRUE
    IN  Pick({u \in UnitWords : HasAt(key, p, u)})

\* RELATIVE_TIME_PATTERN.match(key): [ok, amount, unit, compound, extra]
\*   ^in_(\d+)_(minutes|hours|days)(?:_(\d+)_(minutes))?$
RELATIVE_TIME_PATTERN(key) ==
    LET NoMatch == [ok |-> FALSE, amount |-> 0, unit |-> <<>>, compound |-> FALSE, extra |-> 0]
        \* after the unit, at position q: the end, or _(\d+)_minutes and the end
        Tail3(n1, unit, q, n3) ==
            IF q = Len(key) + 1
            THEN [ok |-> TRUE, amount |-> ToInt(key, 4, n1), unit |-> unit,
                  compound |-> FALSE, extra |-> 0]
            ELSE IF n3 >= 1 /\ HasAt(key, q + 1 + n3, Chars("_minutes"))
                    /\ q + 1 + n3 + 8 = Len(key) + 1
            THEN [ok |-> TRUE, amount |-> ToInt(key, 4, n1), unit |-> unit,
                  compound |-> TRUE, extra |-> ToInt(key, q + 1, n3)]
            ELSE NoMatch
        Tail2(n1, unit, q) ==
            IF unit = <<>> THEN NoMatch
            ELSE Tail3(n1, unit, q,
                       IF HasAt(key, q, Chars("_")) THEN SpanDigits(key, q + 1) ELSE 0)
        Tail1(n1, unit) == Tail2(n1, unit, 4 + n1 + 1 + Len(unit))
        Digits(n1) ==
            IF n1 >= 1 /\ HasAt(key, 4 + n1, Chars("_"))
            THEN Tail1(n1, UnitAt(key, 4 + n1 + 1))
            ELSE NoMatch
    IN  IF StartsWith(key, Chars("in_")) THEN Digits(SpanDigits(key, 4)) ELSE NoMatch

\* d.get(name) is present
Has(d, name) == name \in DOMAIN d

\* date_context.get("current", {}).get("datetime") or ....get("utc_start_of_day")
NowStr(date_context) ==
    IF ~Has(date_context, "current") THEN None
    ELSE IF Has(date_context.current, "datetime") THEN Ok(date_context.current.datetime)
    ELSE IF Has(date_context.current, "utc_start_of_day")
         THEN Ok(date_context.current.utc_start_of_day)
    ELSE None

\* timedelta(<unit>=amount)
UnitDelta(unit, amount) ==
    IF unit = Chars("minutes") THEN TdMinutes(amount)
    ELSE IF unit = Chars("hours") THEN TdHours(amount)
    ELSE TdDays(amount)

\* timedelta(<unit>=amount) [+ timedelta(minutes=extra)]
MatchDelta(match) ==
    IF match.compound
    THEN TdAdd(UnitDelta(match.unit, match.amount), TdMinutes(match.extra))
    ELSE UnitDelta(match.unit, match.amount)

resolve_relative_time(key, date_context) ==
    LET Shift(now, offset) ==
            IF TdOverflows(offset) THEN Raise("OverflowError")
            ELSE IF PlusOverflows(now, offset) THEN Raise("OverflowError")
            ELSE UtcIso(Plus(now, offset))
        Resolve(match, now_str) ==
            IF ~match.ok THEN None
            ELSE IF now_str.tag = "none" THEN None
            ELSE IF ~IsoParses(ReplaceZ(now_str.v)) THEN None
            ELSE IF TdOverflows(UnitDelta(match.unit, match.amount))
            THEN Raise("OverflowError")
            ELSE Shift(fromisoformat(ReplaceZ(now_str.v)), MatchDelta(match))
    IN  Resolve(RELATIVE_TIME_PATTERN(key), NowStr(date_context))

(***************************************************************************)
(* The date context snapshot and flatten_date_context                      *)
(*                                                                         *)
(* A snapshot is a function on the section names it holds.  "current" is a *)
(* record of the fields present.  Every other section is a dict with text  *)
(* keys, kept in insertion order as a sequence of [k, v] items, because    *)
(* flattening assigns flat[key] item by item and a later assignment to the *)
(* same key replaces the earlier one.  An entry is a record of the fields  *)
(* present ("utc_start_of_day", "datetime", "date", "day").                *)
(***************************************************************************)

Item(k, v) == [k |-> k, v |-> v]

DictKeys(d) == {d[i].k : i \in 1..Len(d)}

\* d[key] for a key of d
DictGet(d, key) == d[CHOOSE i \in 1..Len(d) : d[i].k = key].v

\* the flattened table: key -> [kind |-> "str" | "list", v]
EmptyFlat == <<>>

Scalar(v) == [kind |-> "str", v |-> v]

List(v) == [kind |-> "list", v |-> v]

\* the assignment flat[key] = value
Assign(key, value) == [k |-> key, v |-> value]

\* flat["today"] = current["utc_start_of_day"]
CurrentAssignments(ctx) ==
    IF Has(ctx, "current") /\ Has(ctx.current, "utc_start_of_day")
    THEN <<Assign(Chars("today"), Scalar(ctx.current.utc_start_of_day))>>
    ELSE <<>>

\* for key, value in relative.items(): utc_start_of_day, else datetime
RelativeAssignments(items) ==
    LET Usable(e) == Has(e.v, "utc_start_of_day") \/ Has(e.v, "datetime")
        Value(v)  == IF Has(v, "utc_start_of_day") THEN v.utc_start_of_day ELSE v.datetime
        Each(sel) == [i \in 1..Len(sel) |-> Assign(sel[i].k, Scalar(Value(sel[i].v)))]
    IN  Each(SelectSeq(items, Usable)) \o <<>>

\* [item.get("utc_start_of_day") for item in value if ... is str]
StartsOfDay(entries) ==
    LET Dated(e)  == Has(e, "utc_start_of_day")
        Each(sel) == [i \in 1..Len(sel) |-> sel[i].utc_start_of_day]
    IN  Each(SelectSeq(entries, Dated)) \o <<>>

\* for key, value in bucket.items(): if dates: flat[key] = dates
BucketAssignments(items) ==
    LET NonEmpty(e) == StartsOfDay(e.v) # <<>>
        Each(sel)   == [i \in 1..Len(sel) |-> Assign(sel[i].k, List(StartsOfDay(sel[i].v)))]
    IN  Each(SelectSeq(items, NonEmpty)) \o <<>>

\* the items of a dict section, none when the section is absent
Section(ctx, name) == IF Has(ctx, name) THEN ctx[name] ELSE <<>>

\* for bucket_name in ("weekend", "weeks", "months", "years")
BucketsAssignments(ctx) ==
    BucketAssignments(Section(ctx, "weekend")) \o BucketAssignments(Section(ctx, "weeks"))
        \o BucketAssignments(Section(ctx, "months")) \o BucketAssignments(Section(ctx, "years"))

\* for key, value in weekdays.items(): flat[key] = value["utc_start_of_day"]
WeekdayAssignments(items) ==
    LET Dated(e)  == Has(e.v, "utc_start_of_day")
        Each(sel) == [i \in 1..Len(sel) |-> Assign(sel[i].k, Scalar(sel[i].v.utc_start_of_day))]
    IN  Each(SelectSeq(items, Dated)) \o <<>>

\* nested_context.get("weeks", {}).get("this_week", [])
ThisWeek(ctx) ==
    IF Has(ctx, "weeks") /\ Chars("this_week") \in DictKeys(ctx.weeks)
    THEN DictGet(ctx.weeks, Chars("this_week")) ELSE <<>>

\* for entry in this_week: flat[f"this_{day.strip().lower()}"] = ...
ThisWeekAssignments(entries) ==
    LET Named(e)  == Has(e, "day") /\ Has(e, "utc_start_of_day")
        Each(sel) == [i \in 1..Len(sel) |->
                         Assign(Chars("this_") \o Lower(Strip(sel[i].day)),
                                Scalar(sel[i].utc_start_of_day))]
    IN  Each(SelectSeq(entries, Named)) \o <<>>

\* for key, value in time_expressions.items(): flat[normalize_date_key(key)] = value
TimeExpressionAssignments(items) ==
    [i \in 1..Len(items) |-> Assign(normalize_date_key(items[i].k), Scalar(items[i].v))] \o <<>>

\* every assignment to flat, in the order the function makes them
FlatAssignments(ctx) ==
    CurrentAssignments(ctx) \o RelativeAssignments(Section(ctx, "relative_dates"))
        \o BucketsAssignments(ctx) \o WeekdayAssignments(Section(ctx, "weekdays"))
        \o ThisWeekAssignments(ThisWeek(ctx))
        \o TimeExpressionAssignments(Section(ctx, "time_expressions"))

\* the dict a sequence of assignments leaves: for each key its last assignment
DictOf(assignments) ==
    LET Last(key) == CHOOSE i \in 1..Len(assignments) :
                         /\ assignments[i].k = key
                         /\ \A j \in (i + 1)..Len(assignments) : assignments[j].k # key
    IN  [key \in {assignments[i].k : i \in 1..Len(assignments)} |-> assignments[Last(key)].v]

flatten_date_context(nested_context) == DictOf(FlatAssignments(nested_context))

(***************************************************************************)
(* flatten_date_context on contexts that are not well formed.  A caller    *)
(* passes any JSON value: value.py is the Python type of the context, and  *)
(* when it is a dict value.malformed names the sections that hold a value  *)
(* of type value.type (None, a list or a str) where a dict is expected;    *)
(* the other sections are those of value.ctx.                              *)
(***************************************************************************)

JsonContext(py, ctx, malformed, type) ==
    [py |-> py, ctx |-> ctx, malformed |-> malformed, type |-> type]

\* the sections every isinstance(..., dict) test lets through
WellFormedSections(value) ==
    [name \in DOMAIN value.ctx \ value.malformed |-> value.ctx[name]]

\* line 46 returns the empty table for a context that is not a dict; lines
\* 50-86 and 99-103 test isinstance(section, dict) before reading a section;
\* line 89 calls .get("this_week", []) on whatever "weeks" holds
FlattenOutcome(value) ==
    IF value.py # "dict" THEN Ok(EmptyFlat)
    ELSE IF "weeks" \in value.malformed THEN Raise("AttributeError")
    ELSE Ok(flatten_date_context(WellFormedSections(value)))

(***************************************************************************)
(* resolve_date_keys, one step per loop iteration                          *)
(***************************************************************************)

\* key in {"morning", ...} or key.startswith("at_")
\* a faulty variant: the at_ prefix forgotten
IsTimeModifierNamesOnly(key) ==
    key \in { Chars("morning"), Chars("afternoon"), Chars("evening"), Chars("night"),
              Chars("noon"), Chars("midnight") }

IsTimeModifier(key) ==
    \/ key \in { Chars("morning"), Chars("afternoon"), Chars("evening"), Chars("night"),
                 Chars("noon"), Chars("midnight") }
    \/ StartsWith(key, Chars("at_"))

\* [normalize_date_key(key) for key in date_keys if isinstance(key, str)]
NormalizedKeys(date_keys) ==
    LET Each(strs) == [i \in 1..Len(strs) |-> normalize_date_key(strs[i])]
    IN  Each(SelectSeq(date_keys, IsStr)) \o <<>>

\* the strings one key adds to resolved by the flattened table
LookupResolved(flat, key) ==
    IF key \notin DOMAIN flat THEN <<>>
    ELSE IF flat[key].kind = "list" THEN flat[key].v
    ELSE <<flat[key].v>>

\* the key is recorded as unresolved
\* a faulty variant: a key of the relative-offset grammar is never reported
LookupUnresolvedDropsOffsets(flat, key) ==
    key \notin DOMAIN flat /\ ~IsTimeModifier(key) /\ ~RELATIVE_TIME_PATTERN(key).ok

\* a faulty variant: every key starting with in_ is taken for an offset
LookupUnresolvedSkipsIn(flat, key) ==
    key \notin DOMAIN flat /\ ~IsTimeModifier(key) /\ ~StartsWith(key, Chars("in_"))

LookupUnresolved(flat, key) == key \notin DOMAIN flat /\ ~IsTimeModifier(key)

\* the key at the least of the positions hits, as Ok(key), or None
FirstOf(keys, hits) ==
    IF hits = {} THEN None ELSE Ok(keys[CHOOSE i \in hits : \A j \in hits : i <= j])

\* the first key whose flattened value is a str
FirstDateKey(keys, flat) ==
    FirstOf(keys, {i \in 1..Len(keys) :
                      keys[i] \in DOMAIN flat /\ flat[keys[i]].kind = "str"})

\* the first key that is a time modifier
FirstTimeKey(keys) == FirstOf(keys, {i \in 1..Len(keys) : IsTimeModifier(keys[i])})

\* apply_time_modifier over the entries of a list base: [tag, v] with v the
\* strings appended before the end or before the exception
RECURSIVE CombineList(_, _, _)
CombineList(entries, time_key, acc) ==
    LET After(c) ==
            IF c.tag = "raise" THEN c
            ELSE CombineList(Tail(entries), time_key,
                             IF c.tag = "ok" THEN Append(acc, c.v) ELSE acc)
    IN  IF entries = <<>> THEN Ok(acc)
        ELSE After(apply_time_modifier(Head(entries), time_key))

\* the date + time modifier combination: the strings it appends, or the exception
Combination(keys, flat) ==
    LET Apply(base, time_key) ==
            CombineList(IF base.kind = "str" THEN <<base.v>> ELSE base.v, time_key, <<>>)
        Both(date_key, time_key) ==
            IF date_key.tag = "ok" /\ date_key.v # <<>> /\ time_key.tag = "ok"
            THEN Apply(flat[date_key.v], time_key.v)
            ELSE Ok(<<>>)
    IN  Both(FirstDateKey(keys, flat), FirstTimeKey(keys))

\* a faulty variant: nothing is removed
UniqueKeepsAll(entries, seen) == entries

\* the deduplication loop: first occurrences, in order
RECURSIVE Unique(_, _)
Unique(entries, seen) ==
    IF entries = <<>> THEN <<>>
    ELSE IF Head(entries) \in seen THEN Unique(Tail(entries), seen)
    ELSE <<Head(entries)>> \o Unique(Tail(entries), seen \cup {Head(entries)})

(***************************************************************************)
(* Timezones (pytz)                                                        *)
(*                                                                         *)
(* Three zones of the timezone database: UTC, Asia/Kolkata (+05:30, no     *)
(* daylight saving) and America/New_York (-05:00, and -04:00 from the      *)
(* second Sunday of March 02:00 to the first Sunday of November 02:00).    *)
(* Any other name is unknown to pytz.timezone.                             *)
(***************************************************************************)

KnownZones == {"UTC", "Asia/Kolkata", "America/New_York"}

\* the ordinal of the n-th Sunday of month mo of year y
NthSunday(y, mo, n) ==
    LET From(first) == first + ((6 - ((first + 6) % 7)) % 7) + 7 * (n - 1)
    IN  From(ymd2ord(y, mo, 1))

\* New York daylight saving is in effect on local midnight of the day ord of year y
NYDstAtLocalMidnight(y, ord) == ord > NthSunday(y, 3, 2) /\ ord <= NthSunday(y, 11, 1)

\* New York daylight saving is in effect at the UTC instant (ord, sod) of year y
NYDstAtUTC(y, ord, sod) ==
    /\ ord > NthSunday(y, 3, 2) \/ (ord = NthSunday(y, 3, 2) /\ sod >= 7 * 3600)
    /\ ord < NthSunday(y, 11, 1) \/ (ord = NthSunday(y, 11, 1) /\ sod < 6 * 3600)

\* the zone's UTC offset (minutes) at a UTC instant: utc_now.astimezone(user_tz)
ZoneOffsetAtUTC(zone, utc) ==
    IF zone = "Asia/Kolkata" THEN 330
    ELSE IF zone = "America/New_York"
    THEN (IF NYDstAtUTC(utc.y, Ordinal(utc), SecOfDay(utc)) THEN -240 ELSE -300)
    ELSE 0

\* the zone's UTC offset (minutes) at local midnight of a date: user_tz.localize(naive)
ZoneOffsetAtLocalMidnight(zone, date) ==
    IF zone = "Asia/Kolkata" THEN 330
    ELSE IF zone = "America/New_York"
    THEN (IF NYDstAtLocalMidnight(date.y, Ordinal(date)) THEN -240 ELSE -300)
    ELSE 0

(***************************************************************************)
(* generate_date_context_object                                            *)
(***************************************************************************)

\* %A of a weekday number
DayNames ==
    <<Chars("Monday"), Chars("Tuesday"), Chars("Wednesday"), Chars("Thursday"),
      Chars("Friday"), Chars("Saturday"), Chars("Sunday")>>

weekday_names ==
    <<Chars("monday"), Chars("tuesday"), Chars("wednesday"), Chars("thursday"),
      Chars("friday"), Chars("saturday"), Chars("sunday")>>

\* strftime("%Y-%m-%d")
DateStr(dt) == [y |-> dt.y, mo |-> dt.mo, d |-> dt.d]

\* datetime.strptime(v, "%Y-%m-%d"): a naive datetime (a record without off)
strptime(date) == [y |-> date.y, mo |-> date.mo, d |-> date.d, h |-> 0, mi |-> 0, s |-> 0]

\* strftime("%Y-%m-%dT%H:%M:%SZ")
StrftimeZ(dt) == Iso(dt.y, dt.mo, dt.d, dt.h, dt.mi, dt.s, "Z")

\* lines 330-343 (tz_str is never empty and never unknown where it is called)
get_utc_start_of_day(date_obj, tz_str) ==
    IF Has(date_obj, "off")
    THEN StrftimeZ(ToUTC(ReplaceTime(date_obj, 0, 0)))
    ELSE StrftimeZ(ToUTC(DT(date_obj.y, date_obj.mo, date_obj.d, 0, 0, 0,
                            ZoneOffsetAtLocalMidnight(tz_str, date_obj))))

\* to_utc_iso of _generate_time_expressions, for the aware datetimes it is given
to_utc_iso(dt) == IsoformatZ(ToUTC(dt))

\* dt.replace(day=d), dt.replace(month=mo, day=d)
ReplaceDay(dt, d) == [dt EXCEPT !.d = d]

ReplaceMonthDay(dt, mo, d) == [dt EXCEPT !.mo = mo, !.d = d]

\* a faulty variant: thirty days are added
NextMonthFirstThirtyDays(first) == ReplaceDay(Plus(first, TdDays(30)), 1)

\* (first_of_month + timedelta(days=32)).replace(day=1)
NextMonthFirst(first) == ReplaceDay(Plus(first, TdDays(32)), 1)

\* {"date": ..., "utc_start_of_day": ...}
DateEntry(dt, tz) ==
    [date |-> DateStr(dt), utc_start_of_day |-> get_utc_start_of_day(dt, tz)]

\* {"day": ..., "date": ..., "utc_start_of_day": ...}
DayEntry(day, dt, tz) ==
    [day |-> day, date |-> DateStr(dt), utc_start_of_day |-> get_utc_start_of_day(dt, tz)]

\* a faulty variant: Saturday and Sunday are not treated apart
WeekendDatesOneCase(now) ==
    LET Of(sat, lsat) ==
            [this_saturday |-> sat, this_sunday |-> Plus(sat, TdDays(1)),
             last_saturday |-> lsat, last_sunday |-> Plus(lsat, TdDays(1)),
             next_saturday |-> Plus(sat, TdDays(7)), next_sunday |-> Plus(sat, TdDays(8))]
    IN  Of(Plus(now, TdDays((5 - Weekday(now)) % 7)), Plus(now, TdDays(-(Weekday(now) + 2))))

\* lines 362-384: the six weekend dates
WeekendDates(now) ==
    LET Of(sat, sun, lsat, lsun, nsat, nsun) ==
            [this_saturday |-> sat, this_sunday |-> sun, last_saturday |-> lsat,
             last_sunday |-> lsun, next_saturday |-> nsat, next_sunday |-> nsun]
        Weekdays(this_saturday, last_saturday) ==
            Of(this_saturday, Plus(this_saturday, TdDays(1)),
               last_saturday, Plus(last_saturday, TdDays(1)),
               Plus(this_saturday, TdDays(7)), Plus(this_saturday, TdDays(8)))
    IN  IF Weekday(now) = 5
        THEN Of(now, Plus(now, TdDays(1)), Plus(now, TdDays(-7)), Plus(now, TdDays(-6)),
                Plus(now, TdDays(7)), Plus(now, TdDays(8)))
        ELSE IF Weekday(now) = 6
        THEN Of(Plus(now, TdDays(-1)), now, Plus(now, TdDays(-8)), Plus(now, TdDays(-7)),
                Plus(now, TdDays(6)), Plus(now, TdDays(7)))
        ELSE Weekdays(Plus(now, TdDays((5 - Weekday(now)) % 7)),
                      Plus(now, TdDays(-(Weekday(now) + 2))))

\* a faulty variant: the week starts on Monday
this_week_startOnMonday(now) == Plus(now, TdDays(-Weekday(now)))

\* lines 387-390: the Sunday that starts this week
this_week_start(now) ==
    IF Weekday(now) = 6 THEN now ELSE Plus(now, TdDays(-(Weekday(now) + 1)))

\* the seven entries of a week from its start, day names prefixed
WeekEntries(start, prefix, tz) ==
    [i \in 1..7 |->
        DayEntry(prefix \o DayNames[Weekday(Plus(start, TdDays(i - 1))) + 1],
                 Plus(start, TdDays(i - 1)), tz)]

\* lines 402-410 and 524-525: <prefix><weekday name> for the week from start
WeekdayItems(prefix, start, tz) ==
    [i \in 1..7 |->
        Item(prefix \o weekday_names[i],
             [date |-> DateStr(Plus(start, TdDays(i - 1))),
              utc_start_of_day |->
                  get_utc_start_of_day(strptime(DateStr(Plus(start, TdDays(i - 1)))), tz)])]

\* str(hour) for 1..12
HourChars(hour) ==
    IF hour < 10 THEN <<SubSeq("0123456789", hour + 1, hour + 1)>>
    ELSE <<"1", SubSeq("0123456789", hour - 9, hour - 9)>>

\* lines 583-599: the entries of one hour of the 12-hour clock, in insertion order
HourExpressions(today, hour) ==
    LET At(text, h, mi) ==
            Item(Chars("at ") \o HourChars(hour) \o Chars(text),
                 to_utc_iso(ReplaceTime(today, h, mi)))
        Entries(am_hour, pm_hour) ==
            <<At("am", am_hour, 0), At("pm", pm_hour, 0),
              At(":30am", am_hour, 30), At(":30pm", pm_hour, 30)>>
            \o (IF hour \in {9, 10, 11, 1, 2, 3}
                THEN <<At(":15am", am_hour, 15), At(":45am", am_hour, 45),
                       At(":15pm", pm_hour, 15), At(":45pm", pm_hour, 45)>>
                ELSE <<>>)
    IN  Entries(IF hour # 12 THEN hour ELSE 0, IF hour = 12 THEN hour ELSE hour + 12)

RECURSIVE ExactTimes(_, _)
ExactTimes(today, hour) ==
    IF hour > 12 THEN <<>> ELSE HourExpressions(today, hour) \o ExactTimes(today, hour + 1)

\* lines 538-601; today is now at 00:00:00, with now's tzinfo
_generate_time_expressions(now) ==
    LET Phrase(text, day, h) == Item(Chars(text), to_utc_iso(ReplaceTime(day, h, 0)))
        Table(today, tomorrow, yesterday) ==
            <<Phrase("this morning", today, 7),
              Phrase("this afternoon", today, 14),
              Phrase("this evening", today, 19),
              Phrase("tonight", today, 20),
              Phrase("during lunch", today, 12),
              Phrase("at breakfast", today, 8),
              Phrase("at dinner", today, 18),
              Phrase("at noon", today, 12),
              Phrase("at midnight", today, 0),
              Phrase("tomorrow morning", tomorrow, 7),
              Phrase("tomorrow afternoon", tomorrow, 14),
              Phrase("tomorrow evening", tomorrow, 19),
              Phrase("tomorrow night", tomorrow, 20),
              Phrase("yesterday morning", yesterday, 7),
              Phrase("yesterday afternoon", yesterday, 14),
              Phrase("yesterday evening", yesterday, 19),
              Phrase("last night", yesterday, 20)>>
            \o ExactTimes(today, 1)
        Days(today) == Table(today, Plus(today, TdDays(1)), Plus(today, TdDays(-1)))
    IN  Days(ReplaceTime(now, 0, 0))

\* a faulty variant: an unrecognized name is kept
ResolveTimezoneKeepsName(timezone_str) == IF timezone_str = "" THEN "UTC" ELSE timezone_str

\* lines 317-328: the timezone name the snapshot is computed in
ResolveTimezone(timezone_str) == IF timezone_str \in KnownZones THEN timezone_str ELSE "UTC"

\* lines 319-321: utc_now.astimezone(user_tz)
LocalNow(zone, utc_now) ==
    LET Shift(off) == [Plus(utc_now, [days |-> 0, secs |-> off * 60]) EXCEPT !.off = off]
    IN  Shift(ZoneOffsetAtUTC(zone, utc_now))

\* lines 346-359 and 423-445
RelativeDates(now, tz) ==
    <<Item(Chars("tomorrow"), DateEntry(Plus(now, TdDays(1)), tz)),
      Item(Chars("yesterday"), DateEntry(Plus(now, TdDays(-1)), tz)),
      Item(Chars("last_night"),
           [date |-> DateStr(Plus(now, TdDays(-1))),
            time |-> Chars("19:00:00"),
            datetime |-> IsoformatZ(ToUTC(ReplaceTime(Plus(now, TdDays(-1)), 19, 0)))]),
      Item(Chars("day_after_tomorrow"), DateEntry(Plus(now, TdDays(2)), tz)),
      Item(Chars("day_before_yesterday"), DateEntry(Plus(now, TdDays(-2)), tz))>>

\* lines 446-459
WeekendSection(w, tz) ==
    <<Item(Chars("this_weekend"),
           <<DayEntry(Chars("Saturday"), w.this_saturday, tz),
             DayEntry(Chars("Sunday"), w.this_sunday, tz)>>),
      Item(Chars("next_weekend"),
           <<DayEntry(Chars("Saturday"), w.next_saturday, tz),
             DayEntry(Chars("Sunday"), w.next_sunday, tz)>>),
      Item(Chars("last_weekend"),
           <<DayEntry(Chars("Saturday"), w.last_saturday, tz),
             DayEntry(Chars("Sunday"), w.last_sunday, tz)>>)>>

\* lines 460-485
WeeksSection(start, tz) ==
    <<Item(Chars("this_week"), WeekEntries(start, <<>>, tz)),
      Item(Chars("next_week"), WeekEntries(Plus(start, TdDays(7)), Chars("Next "), tz)),
      Item(Chars("last_week"), WeekEntries(Plus(start, TdDays(-7)), Chars("Last "), tz))>>

\* lines 486-504; first is now.replace(day=1)
MonthsSection(first, tz) ==
    <<Item(Chars("this_month"),
           <<DateEntry(first, tz),
             DateEntry(Plus(NextMonthFirst(first), TdDays(-1)), tz)>>),
      Item(Chars("next_month"),
           <<DateEntry(NextMonthFirst(first), tz),
             DateEntry(Plus(NextMonthFirst(NextMonthFirst(first)), TdDays(-1)), tz)>>),
      Item(Chars("last_month"),
           <<DateEntry(ReplaceDay(Plus(first, TdDays(-1)), 1), tz),
             DateEntry(Plus(first, TdDays(-1)), tz)>>)>>

\* a faulty variant: the calendar years before and after are taken
YearsSectionOfCalendarYears(now, tz) ==
    <<Item(Chars("this_year"),
           <<DateEntry(ReplaceMonthDay(now, 1, 1), tz),
             DateEntry(ReplaceMonthDay(now, 12, 31), tz)>>),
      Item(Chars("next_year"),
           <<DateEntry([now EXCEPT !.y = now.y + 1, !.mo = 1, !.d = 1], tz),
             DateEntry([now EXCEPT !.y = now.y + 1, !.mo = 12, !.d = 31], tz)>>),
      Item(Chars("last_year"),
           <<DateEntry([now EXCEPT !.y = now.y - 1, !.mo = 1, !.d = 1], tz),
             DateEntry([now EXCEPT !.y = now.y - 1, !.mo = 12, !.d = 31], tz)>>)>>

\* lines 505-522
YearsSection(now, tz) ==
    <<Item(Chars("this_year"),
           <<DateEntry(ReplaceMonthDay(now, 1, 1), tz),
             DateEntry(ReplaceMonthDay(now, 12, 31), tz)>>),
      Item(Chars("next_year"),
           <<DateEntry(ReplaceMonthDay(Plus(now, TdDays(365)), 1, 1), tz),
             DateEntry(ReplaceMonthDay(Plus(now, TdDays(365)), 12, 31), tz)>>),
      Item(Chars("last_year"),
           <<DateEntry(ReplaceMonthDay(Plus(now, TdDays(-365)), 1, 1), tz),
             DateEntry(ReplaceMonthDay(Plus(now, TdDays(-365)), 12, 31), tz)>>)>>

\* lines 523-526
WeekdaysSection(start, tz) ==
    WeekdayItems(Chars("next_"), Plus(start, TdDays(7)), tz)
      \o WeekdayItems(Chars("last_"), Plus(start, TdDays(-7)), tz)

\* lines 414-422
CurrentSection(now, tz) ==
    [date |-> [weekday |-> DayNames[Weekday(now) + 1], y |-> now.y, mo |-> now.mo, d |-> now.d],
     date_iso |-> DateStr(now),
     time |-> [h |-> IF now.h % 12 = 0 THEN 12 ELSE now.h % 12, mi |-> now.mi,
               p |-> IF now.h < 12 THEN "AM" ELSE "PM"],
     datetime |-> IsoformatZ(ToUTC(now)),
     weekday |-> Lower(DayNames[Weekday(now) + 1]),
     weekday_number |-> Weekday(now),
     utc_start_of_day |-> get_utc_start_of_day(now, tz)]

\* generate_date_context_object with the clock reading (utc_now) made explicit
generate_date_context_object(timezone_str, utc_now) ==
    LET Build(now, tz) ==
            [current |-> CurrentSection(now, tz),
             relative_dates |-> RelativeDates(now, tz),
             weekend |-> WeekendSection(WeekendDates(now), tz),
             weeks |-> WeeksSection(this_week_start(now), tz),
             months |-> MonthsSection(ReplaceDay(now, 1), tz),
             years |-> YearsSection(now, tz),
             weekdays |-> WeekdaysSection(this_week_start(now), tz),
             timezone |-> [user_timezone |-> tz,
                           current_timezone |-> tz,
                           is_dst |-> (tz = "America/New_York" /\ now.off = -240)],
             time_expressions |-> _generate_time_expressions(now)]
        In(tz) == Build(LocalNow(tz, utc_now), tz)
    IN  In(ResolveTimezone(timezone_str))

(***************************************************************************)
(* Inputs of the model                                                     *)
(***************************************************************************)

\* the longest date_keys list a caller passes
MaxKeys == 2

\* the raw date keys callers pass to resolve_date_keys: texts, the empty
\* text, a blank text and a value that is not a str
DateKeyInputs ==
    { Chars("tomorrow"), Chars("this_weekend"), Chars("morning"), Chars("afternoon"),
      Chars("At 3:30PM "), Chars("at_13pm"), Chars("at_3_75pm"),
      Chars("in_30_minutes"), Chars("in_4000000_days"), Chars("in_abc_minutes"),
      Chars("next_fortnight"), Chars(""), Chars("  "), PyInt(5) }

KeyLists == UNION {[1..n -> DateKeyInputs] : n \in 0..MaxKeys}

\* the context of the resolver's unit tests: only relative_dates.tomorrow
CtxTomorrow ==
    [relative_dates |->
        <<Item(Chars("tomorrow"), [utc_start_of_day |-> Iso(2025, 1, 16, 0, 0, 0, "Z")])>>]

\* a context whose reference instant does not parse
CtxBadNow ==
    [current |-> [datetime |-> NotADate],
     relative_dates |->
        <<Item(Chars("tomorrow"), [utc_start_of_day |-> Iso(2025, 1, 16, 0, 0, 0, "Z")])>>]

\* a context whose only reference instant is utc_start_of_day, with an offset
CtxStartOnly ==
    [current |-> [utc_start_of_day |-> Iso(2025, 1, 15, 0, 0, 0, "-05:00")]]

\* the instant the clock shows when a snapshot is generated (UTC)
UtcNow == DT(2025, 1, 15, 10, 0, 0, 0)

\* snapshots the generator makes, for a UTC user and for a New York user
SnapshotUTC == generate_date_context_object("UTC", UtcNow)

SnapshotNY == generate_date_context_object("America/New_York", UtcNow)

Contexts == {CtxTomorrow, CtxBadNow, CtxStartOnly, SnapshotUTC, SnapshotNY}

\* the sections flatten_date_context reads
SectionNames ==
    {"current", "relative_dates", "weekend", "weeks", "months", "years",
     "weekdays", "time_expressions"}

\* the Python types of a JSON value that is not an object
NonDictTypes == {"NoneType", "list", "str"}

\* the most sections of one context that hold a value of the wrong type
MaxMalformed == 2

\* the contexts given to flatten_date_context: values that are not a dict,
\* and a generated snapshot with up to MaxMalformed sections replaced
JsonContexts ==
    {JsonContext(type, CtxTomorrow, {}, type) : type \in NonDictTypes}
        \cup {JsonContext("dict", SnapshotUTC, malformed, type) :
                  malformed \in {m \in SUBSET SectionNames : Cardinality(m) <= MaxMalformed},
                  type \in NonDictTypes}

\* str(n) for a natural number
RECURSIVE Decimal(_)
Decimal(n) ==
    IF n < 10 THEN <<SubSeq("0123456789", n + 1, n + 1)>>
    ELSE Decimal(n \div 10) \o <<SubSeq("0123456789", (n % 10) + 1, (n % 10) + 1)>>

\* f"{n:02d}"
TwoDigits(n) == IF n < 10 THEN <<"0">> \o Decimal(n) ELSE Decimal(n)

\* the hours and minutes written in the time strings given to parse_time_string:
\* every hour and minute of the 12-hour clock, and some that are off the clock
HourInputs == 0..13 \cup {25}

MinuteInputs == 0..59 \cup {75}

\* "<h>am", "<h>pm"
HourOnlyString(h, ampm) == Decimal(h) \o ampm

\* "<h>_<mm>am", "<h>_<mm>pm"
WithMinutesString(h, mm, ampm) == Decimal(h) \o <<"_">> \o TwoDigits(mm) \o ampm

\* strings that match neither form of parse_time_string
OtherTimeStrings ==
    { Chars(""), Chars("noon"), Chars("pm"), Chars("3"), Chars("3_pm"), Chars("3:30pm"),
      Chars("x3pm"), Chars("3 pm"), Chars("3PM"), Chars("_30pm") }

\* strings that match a form only by their beginning (re.match is a prefix match)
PrefixTimeStrings == { Chars("3pm today"), Chars("9_30amx"), Chars("12ampm") }

TimeStringInputs ==
    {HourOnlyString(h, ampm) : h \in HourInputs, ampm \in {AM, PM}}
        \cup {WithMinutesString(h, mm, ampm) : h \in HourInputs, mm \in MinuteInputs,
                                                ampm \in {AM, PM}}
        \cup OtherTimeStrings \cup PrefixTimeStrings

\* the six fixed modifier names
FixedModifiers ==
    { Chars("morning"), Chars("afternoon"), Chars("evening"), Chars("night"),
      Chars("noon"), Chars("midnight") }

\* the modifiers given to apply_time_modifier
ModifierInputs ==
    FixedModifiers \cup { Chars("at_3pm"), Chars("at_9_30am"), Chars("at_12am"),
                          Chars("at_13pm"), Chars("at_3_75pm"), Chars("at_noon"),
                          Chars("tonight"), Chars("") }

\* the base instants given to apply_time_modifier
BaseInputs ==
    { Iso(2025, 1, 15, 0, 0, 0, "Z"), Iso(2025, 1, 15, 0, 0, 0, "+00:00"),
      Iso(2025, 1, 16, 0, 0, 0, "Z"),
      Iso(2025, 1, 16, 10, 30, 45, "Z"), Iso(2025, 1, 16, 10, 30, 45, "+00:00"),
      Iso(2024, 2, 29, 23, 59, 59, "Z"), Iso(2024, 12, 31, 23, 0, 0, "+00:00"),
      Iso(2025, 1, 15, 22, 30, 0, "-05:00"), Iso(2025, 1, 16, 3, 0, 0, "+05:30"),
      NotADate }

\* the amounts N and M written in relative-offset keys
AmountInputs == {0, 1, 30, 90, 1440, 4000000, 1000000000}

ExtraInputs == {0, 15, 90}

\* "in_<N>_<unit>" and "in_<N>_<unit>_<M>_minutes"
RelativeKey(n, unit) == Chars("in_") \o Decimal(n) \o <<"_">> \o unit

CompoundKey(n, unit, m) == RelativeKey(n, unit) \o <<"_">> \o Decimal(m) \o Chars("_minutes")

\* keys the relative-offset grammar rejects
OtherRelativeKeys ==
    { Chars("in_abc_minutes"), Chars("in_5_weeks"), Chars("in_5_minutes_later"),
      Chars("in_1_hours_30_seconds"), Chars("in__minutes"), Chars("within_5_minutes"),
      Chars("tomorrow"), Chars("") }

RelativeKeyInputs ==
    {RelativeKey(n, unit) : n \in AmountInputs, unit \in UnitWords}
        \cup {CompoundKey(n, unit, m) : n \in AmountInputs, unit \in UnitWords, m \in ExtraInputs}
        \cup OtherRelativeKeys

\* the longest raw key given to normalize_date_key
MaxRawLen == 4

\* the characters of those raw keys: letters of both cases, whitespace, the
\* colon and the underscore
RawChars == {"a", "T", " ", "\t", ":", "_"}

RawKeyInputs == UNION {[1..n -> RawChars] : n \in 0..MaxRawLen}

(***************************************************************************)
(* Values of an MCP arguments dict, and the configuration (config.py)      *)
(***************************************************************************)

\* a Python value: the name of its type and what it holds.  A timezone value
\* holds a text (for an int, its digits); a date_keys value holds a sequence
\* of keys (for a str, the one text).
Py(type, v) == [py |-> type, v |-> v]

\* the dict has no "timezone" key; the timezone is None
Absent == Py("absent", "")

PyNone == Py("NoneType", "")

\* the dict has no "date_keys" key; date_keys is None
AbsentKeys == Py("absent", <<>>)

NoneKeys == Py("NoneType", <<>>)

\* str(k) of an element of date_keys
PyStr(k) == IF IsStr(k) THEN k ELSE Tail(k)

\* tools_str.split(","): the pieces between the commas
SplitCommas(tools_str) ==
    LET Cuts == {0, Len(tools_str) + 1} \cup {i \in 1..Len(tools_str) : tools_str[i] = ","}
        Adjacent(a, b) == a < b /\ \A k \in Cuts : ~(a < k /\ k < b)
    IN  {SubSeq(tools_str, c[1] + 1, c[2] - 1) : c \in {x \in Cuts \X Cuts : Adjacent(x[1], x[2])}}

\* JarvisMcpConfig.from_env: {t.strip() for t in tools_str.split(",") if t.strip()}
from_env(tools_str) == {Strip(t) : t \in {u \in SplitCommas(tools_str) : Strip(u) # <<>>}}

\* os.getenv("JARVIS_MCP_TOOLS", "logs,debug") when the variable is not set
DefaultToolsEnv == Chars("logs,debug")

\* the values of JARVIS_MCP_TOOLS the server is started with
ToolsEnvInputs ==
    { DefaultToolsEnv, Chars(" datetime , math,,tests "), Chars(""),
      Chars("logs,debug,health,tests,db,datetime,math,conversion,command") }

\* the limits of tools/datetime.py
MaxDateKeys == 100

MaxTimezoneLength == 100

\* a text of n characters
RECURSIVE Repeat(_, _)
Repeat(c, n) == IF n = 0 THEN "" ELSE c \o Repeat(c, n - 1)

\* the instants the clock shows when a snapshot is generated: a Wednesday
\* morning, the night New York's daylight saving starts, a Saturday that is
\* already Sunday in Kolkata
ClockInstants == {UtcNow, DT(2025, 3, 9, 6, 30, 0, 0), DT(2025, 1, 18, 23, 30, 0, 0)}

\* the instants the clock shows in the calendar study of the generator: one
\* for each weekday, the ends of months of 28, 29, 30 and 31 days, the turn
\* of the year, the first and the last day of a leap year, and days before
\* and after New York's daylight saving changes
ReferenceInstants ==
    { DT(2025, 1, 13, 10, 0, 0, 0), DT(2025, 1, 14, 10, 0, 0, 0), DT(2025, 1, 15, 10, 0, 0, 0),
      DT(2025, 1, 16, 10, 0, 0, 0), DT(2025, 1, 17, 10, 0, 0, 0), DT(2025, 1, 18, 10, 0, 0, 0),
      DT(2025, 1, 19, 10, 0, 0, 0),
      DT(2025, 1, 31, 12, 0, 0, 0), DT(2025, 2, 28, 12, 0, 0, 0), DT(2024, 2, 29, 12, 0, 0, 0),
      DT(2024, 2, 1, 3, 0, 0, 0), DT(2025, 4, 30, 12, 0, 0, 0), DT(2025, 12, 1, 12, 0, 0, 0),
      DT(2025, 12, 31, 23, 30, 0, 0), DT(2026, 1, 1, 0, 0, 0, 0),
      DT(2024, 1, 1, 12, 0, 0, 0), DT(2024, 12, 31, 12, 0, 0, 0), DT(2023, 12, 31, 12, 0, 0, 0),
      DT(2025, 3, 6, 15, 0, 0, 0), DT(2025, 3, 9, 6, 30, 0, 0), DT(2025, 3, 12, 15, 0, 0, 0),
      DT(2025, 11, 1, 15, 0, 0, 0) }

\* the timezone arguments given to generate_date_context_object
TimezoneInputs ==
    { PyNone, Py("str", ""), Py("str", "UTC"), Py("str", "America/New_York"),
      Py("str", "Asia/Kolkata"), Py("str", "Mars/Olympus_Mons") }

\* the arguments dicts given to the datetime tools
Arguments(date_keys, timezone) == [date_keys |-> date_keys, timezone |-> timezone]

ListOf(n, key) == Py("list", [i \in 1..n |-> key])

ToolArguments ==
    { Arguments(AbsentKeys, Absent),
      Arguments(AbsentKeys, Py("str", "UTC")),
      Arguments(NoneKeys, Absent),
      Arguments(Py("str", <<Chars("tomorrow")>>), Absent),
      Arguments(ListOf(MaxDateKeys + 1, Chars("tomorrow")), Absent),
      Arguments(ListOf(MaxDateKeys + 1, Chars("tomorrow")), Py("int", "12345")),
      Arguments(ListOf(1, Chars("tomorrow")), Py("int", "12345")),
      Arguments(ListOf(1, Chars("tomorrow")), PyNone),
      Arguments(ListOf(1, Chars("tomorrow")), Py("str", Repeat("x", MaxTimezoneLength + 1))),
      Arguments(ListOf(0, Chars("tomorrow")), Absent),
      Arguments(Py("list", <<Chars("Tomorrow"), Chars("morning")>>), Absent),
      Arguments(Py("list", <<Chars("tomorrow"), Chars("at 3:30pm")>>),
                Py("str", "America/New_York")),
      Arguments(Py("list", <<PyInt(5), Chars("next_fortnight")>>), Py("str", "Mars/Olympus_Mons")),
      Arguments(Py("list", <<Chars("in_4000000_days")>>), Py("str", "UTC")),
      Arguments(ListOf(MaxDateKeys, Chars("in_30_minutes")),
                Py("str", Repeat("x", MaxTimezoneLength))) }

\* the tool names given to call_tool and to handle_datetime_tool
DatetimeToolNames ==
    { Chars("datetime_context"), Chars("datetime_resolve"), Chars("datetime_now") }

ToolNames ==
    DatetimeToolNames \cup
    { Chars("logs_query"), Chars("debug_health"), Chars("health_check"), Chars("run_tests"),
      Chars("tests_list"), Chars("db_query"), Chars("math_evaluate"), Chars("unit_convert"),
      Chars("command_test"), Chars("docker_ps"), Chars("conversion_list"),
      Chars("run_tests_all"), Chars("logs"), Chars("unknown_tool") }

(***************************************************************************)
(* State                                                                   *)
(***************************************************************************)

VARIABLES
    op,               \* the function the caller invoked ("" when idle)
    pc,               \* "idle", "build", "handler", "loop", "combine", "dedup", "done", "raised"
    args,             \* the arguments of the call
    normalized_keys,  \* resolve_date_keys: the normalized keys
    flat_context,     \* resolve_date_keys: the flattened table
    idx,              \* resolve_date_keys: the position of the key loop
    resolved,         \* resolve_date_keys: the resolved list so far
    unresolved,       \* resolve_date_keys: the unresolved list so far
    ret,              \* the value returned, or the exception raised
    reading,          \* generate_date_context_object: what datetime.now gave
    tool,             \* the MCP tool call that awaits the resolver (its frame)
    invoked,          \* call_tool: the handlers invoked, in order
    enabled_tools     \* config.enabled_tools

\* the variables of the MCP server around the date engine
server == <<tool, invoked, enabled_tools>>

vars == <<op, pc, args, normalized_keys, flat_context, idx, resolved, unresolved, ret,
          reading, tool, invoked, enabled_tools>>

\* no tool call awaits the resolver
NoFrame == [op |-> "", name |-> <<>>, arguments |-> <<>>]

Init ==
    /\ op = ""
    /\ pc = "idle"
    /\ args = <<>>
    /\ normalized_keys = <<>>
    /\ flat_context = EmptyFlat
    /\ idx = 0
    /\ resolved = <<>>
    /\ unresolved = <<>>
    /\ ret = None
    /\ reading = None
    /\ tool = NoFrame
    /\ invoked = <<>>
    /\ enabled_tools = from_env(DefaultToolsEnv)

\* a function without loops is called and returns (or raises) at once
Finish(name, arguments, result) ==
    /\ op' = name
    /\ args' = arguments
    /\ ret' = result
    /\ pc' = IF result.tag = "raise" THEN "raised" ELSE "done"
    /\ UNCHANGED <<normalized_keys, flat_context, idx, resolved, unresolved, reading>>
    /\ UNCHANGED server

\* resolve_date_keys, lines 235-242: the early return, normalization, flattening
EnterResolveDateKeys(date_keys, date_context) ==
    /\ op' = "resolve_date_keys"
    /\ args' = [date_keys |-> date_keys, date_context |-> date_context]
    /\ resolved' = <<>>
    /\ unresolved' = <<>>
    /\ IF date_keys = <<>>
       THEN /\ pc' = "done"
            /\ ret' = Ok([resolved |-> <<>>, unresolved |-> <<>>])
            /\ UNCHANGED <<normalized_keys, flat_context, idx>>
       ELSE /\ normalized_keys' = NormalizedKeys(date_keys)
            /\ flat_context' = flatten_date_context(date_context)
            /\ idx' = 1
            /\ pc' = IF NormalizedKeys(date_keys) = <<>> THEN "combine" ELSE "loop"
            /\ ret' = None

\* resolve_date_keys(date_keys, date_context)
CallResolveDateKeys ==
    \E date_keys \in KeyLists, date_context \in Contexts :
        /\ pc = "idle"
        /\ EnterResolveDateKeys(date_keys, date_context)
        /\ UNCHANGED <<reading, tool, invoked, enabled_tools>>

\* lines 244-260: one iteration of "for key in normalized_keys"
LoopStep ==
    /\ pc = "loop"
    /\ LET Step(key, relative_result) ==
               IF relative_result.tag = "raise"
               THEN /\ pc' = "raised"
                    /\ ret' = relative_result
                    /\ UNCHANGED <<idx, resolved, unresolved>>
               ELSE /\ IF relative_result.tag = "ok"
                       THEN /\ resolved' = Append(resolved, relative_result.v)
                            /\ UNCHANGED unresolved
                       ELSE /\ resolved' = resolved \o LookupResolved(flat_context, key)
                            /\ unresolved' = IF LookupUnresolved(flat_context, key)
                                             THEN Append(unresolved, key) ELSE unresolved
                    /\ idx' = idx + 1
                    /\ pc' = IF idx = Len(normalized_keys) THEN "combine" ELSE "loop"
                    /\ UNCHANGED ret
       IN  Step(normalized_keys[idx],
                resolve_relative_time(normalized_keys[idx], args.date_context))
    /\ UNCHANGED <<op, args, normalized_keys, flat_context, reading>>
    /\ UNCHANGED server

\* lines 262-288: the date + time modifier combination
Combine ==
    /\ pc = "combine"
    /\ LET Extend(c) ==
               IF c.tag = "raise"
               THEN /\ pc' = "raised"
                    /\ ret' = c
                    /\ UNCHANGED resolved
               ELSE /\ resolved' = resolved \o c.v
                    /\ pc' = "dedup"
                    /\ UNCHANGED ret
       IN  Extend(Combination(normalized_keys, flat_context))
    /\ UNCHANGED <<op, args, normalized_keys, flat_context, idx, unresolved, reading>>
    /\ UNCHANGED server

\* lines 290-299: deduplicate and return
Dedup ==
    /\ pc = "dedup"
    /\ ret' = Ok([resolved |-> Unique(resolved, {}), unresolved |-> unresolved])
    /\ pc' = "done"
    /\ UNCHANGED <<op, args, normalized_keys, flat_context, idx, resolved, unresolved>>
    /\ UNCHANGED <<reading, tool, invoked, enabled_tools>>

\* normalize_date_key(raw)
CallNormalizeDateKey ==
    \E raw \in RawKeyInputs :
        /\ pc = "idle"
        /\ Finish("normalize_date_key", [raw |-> raw], Ok(normalize_date_key(raw)))

\* flatten_date_context(nested_context)
CallFlattenDateContext ==
    \E nested_context \in JsonContexts :
        /\ pc = "idle"
        /\ Finish("flatten_date_context", [nested_context |-> nested_context],
                  FlattenOutcome(nested_context))

\* parse_time_string(time_str)
CallParseTimeString ==
    \E time_str \in TimeStringInputs :
        /\ pc = "idle"
        /\ Finish("parse_time_string", [time_str |-> time_str],
                  Ok(parse_time_string(time_str)))

\* apply_time_modifier(base_datetime, modifier)
CallApplyTimeModifier ==
    \E base_datetime \in BaseInputs, modifier \in ModifierInputs :
        /\ pc = "idle"
        /\ Finish("apply_time_modifier",
                  [base_datetime |-> base_datetime, modifier |-> modifier],
                  apply_time_modifier(base_datetime, modifier))

\* resolve_relative_time(key, date_context)
CallResolveRelativeTime ==
    \E key \in RelativeKeyInputs, date_context \in Contexts :
        /\ pc = "idle"
        /\ Finish("resolve_relative_time", [key |-> key, date_context |-> date_context],
                  resolve_relative_time(key, date_context))

\* the caller takes the result (or the exception); the next call starts afresh
Return ==
    /\ pc \in {"done", "raised"}
    /\ tool.op = ""
    /\ op' = ""
    /\ pc' = "idle"
    /\ args' = <<>>
    /\ normalized_keys' = <<>>
    /\ flat_context' = EmptyFlat
    /\ idx' = 0
    /\ resolved' = <<>>
    /\ unresolved' = <<>>
    /\ ret' = None
    /\ reading' = None
    /\ invoked' = <<>>
    /\ UNCHANGED <<tool, enabled_tools>>

(***************************************************************************)
(* generate_date_context_object as the caller runs it: the clock is read   *)
(* (lines 317-328) and the snapshot is then built (lines 345-535)          *)
(***************************************************************************)

\* "if timezone_str:" - None and "" both take the else branch
TimezoneName(timezone_str) == IF timezone_str.py = "str" THEN timezone_str.v ELSE ""

\* a faulty variant: the clock is read again while the snapshot is built
ReferenceInstantResampled(captured, later) == later

\* the instant the dates are computed from: now, as captured on entry,
\* whatever the clock shows later
ReferenceInstant(captured, later) == captured

CallGenerateDateContextObject ==
    \E timezone_str \in TimezoneInputs, utc_now \in ClockInstants :
        /\ pc = "idle"
        /\ op' = "generate_date_context_object"
        /\ args' = [timezone_str |-> timezone_str]
        /\ reading' = utc_now
        /\ pc' = "build"
        /\ UNCHANGED <<normalized_keys, flat_context, idx, resolved, unresolved, ret>>
        /\ UNCHANGED server

\* generate_date_context_object(timezone_str), called on a day of the
\* calendar study
CallGenerateOnReferenceDate ==
    \E timezone_str \in TimezoneInputs, utc_now \in ReferenceInstants :
        /\ pc = "idle"
        /\ op' = "generate_date_context_object"
        /\ args' = [timezone_str |-> timezone_str]
        /\ reading' = utc_now
        /\ pc' = "build"
        /\ UNCHANGED <<normalized_keys, flat_context, idx, resolved, unresolved, ret>>
        /\ UNCHANGED server

BuildDateContext ==
    \E later \in ClockInstants :
        /\ pc = "build"
        /\ ret' = Ok(generate_date_context_object(TimezoneName(args.timezone_str),
                                                  ReferenceInstant(reading, later)))
        /\ pc' = "done"
        /\ UNCHANGED <<op, args, normalized_keys, flat_context, idx, resolved, unresolved>>
        /\ UNCHANGED <<reading, tool, invoked, enabled_tools>>

Next ==
    \/ CallNormalizeDateKey
    \/ CallFlattenDateContext
    \/ CallParseTimeString
    \/ CallApplyTimeModifier
    \/ CallResolveRelativeTime
    \/ CallResolveDateKeys
    \/ LoopStep
    \/ Combine
    \/ Dedup
    \/ CallGenerateDateContextObject
    \/ BuildDateContext
    \/ Return

Spec == Init /\ [][Next]_vars

(***************************************************************************)
(* The MCP tools: tools/datetime.py and server.py                          *)
(***************************************************************************)

\* TextContent(type="text", text=...); a JSON text is the object it encodes
TextContent(text) == [type |-> "text", text |-> text]

\* '{"error": "..."}'
ErrorJson(message) == [error |-> message]

\* args.get("timezone", "UTC")
TimezoneArg(arguments) ==
    IF arguments.timezone.py = "absent" THEN Py("str", "UTC") ELSE arguments.timezone

\* not isinstance(timezone_str, str) or len(timezone_str) > 100
InvalidTimezone(timezone_str) ==
    timezone_str.py # "str" \/ Len(timezone_str.v) > MaxTimezoneLength

\* the error _datetime_resolve returns before it resolves anything, or None
ResolveError(arguments) ==
    IF arguments.date_keys.py \in {"absent", "NoneType"} THEN Ok("date_keys is required")
    ELSE IF arguments.date_keys.py # "list" THEN Ok("date_keys must be a list")
    ELSE IF Len(arguments.date_keys.v) > MaxDateKeys
    THEN Ok("date_keys exceeds maximum of 100 items")
    ELSE IF InvalidTimezone(TimezoneArg(arguments)) THEN Ok("invalid timezone parameter")
    ELSE None

\* date_keys = [str(k) for k in date_keys]
Coerced(date_keys) == [i \in 1..Len(date_keys) |-> PyStr(date_keys[i])] \o <<>>

\* the tool (or a handler that is not modelled) returns at once; clock is
\* what datetime.now gave it, if it asked
ToolReturns(caller, name, arguments, result, clock) ==
    /\ op' = caller
    /\ args' = [name |-> name, arguments |-> arguments]
    /\ ret' = Ok(result)
    /\ pc' = "done"
    /\ tool' = NoFrame
    /\ reading' = clock
    /\ UNCHANGED <<normalized_keys, flat_context, idx, resolved, unresolved>>

\* _datetime_context (lines 73-79)
DatetimeContext(caller, name, arguments, utc_now) ==
    IF InvalidTimezone(TimezoneArg(arguments))
    THEN ToolReturns(caller, name, arguments,
                     <<TextContent(ErrorJson("invalid timezone parameter"))>>, reading)
    ELSE ToolReturns(caller, name, arguments,
                     <<TextContent(generate_date_context_object(TimezoneArg(arguments).v,
                                                                utc_now))>>, utc_now)

\* _datetime_resolve (lines 82-101): an error, or a fresh snapshot and the
\* call of resolve_date_keys
DatetimeResolve(caller, name, arguments, utc_now) ==
    IF ResolveError(arguments) # None
    THEN ToolReturns(caller, name, arguments,
                     <<TextContent(ErrorJson(ResolveError(arguments).v))>>, reading)
    ELSE /\ tool' = [op |-> caller, name |-> name, arguments |-> arguments]
         /\ reading' = utc_now
         /\ EnterResolveDateKeys(
                Coerced(arguments.date_keys.v),
                generate_date_context_object(TimezoneArg(arguments).v, utc_now))

\* the caller awaits handle_datetime_tool(name, arguments)
Await(caller, name, arguments) ==
    /\ op' = caller
    /\ args' = [name |-> name, arguments |-> arguments]
    /\ tool' = [op |-> caller, name |-> name, arguments |-> arguments]
    /\ pc' = "handler"
    /\ UNCHANGED <<normalized_keys, flat_context, idx, resolved, unresolved, ret, reading>>

\* a test calls handle_datetime_tool(name, arguments)
CallHandleDatetimeTool ==
    \E name \in DatetimeToolNames, arguments \in ToolArguments :
        /\ pc = "idle"
        /\ Await("handle_datetime_tool", name, arguments)
        /\ UNCHANGED <<invoked, enabled_tools>>

\* handle_datetime_tool (lines 63-70); the clock is read while it runs
HandleDatetimeTool ==
    \E utc_now \in ClockInstants :
        /\ pc = "handler"
        /\ IF tool.name = Chars("datetime_context")
           THEN DatetimeContext(tool.op, tool.name, tool.arguments, utc_now)
           ELSE IF tool.name = Chars("datetime_resolve")
           THEN DatetimeResolve(tool.op, tool.name, tool.arguments, utc_now)
           ELSE ToolReturns(tool.op, tool.name, tool.arguments,
                            <<TextContent(Chars("Unknown datetime tool: ") \o tool.name)>>,
                            reading)
        /\ UNCHANGED <<invoked, enabled_tools>>

\* lines 103-107: resolve_date_keys has returned to _datetime_resolve, which
\* returns the JSON text (an exception passes through)
ToolReturn ==
    /\ pc \in {"done", "raised"}
    /\ tool.op # ""
    /\ op' = tool.op
    /\ args' = [name |-> tool.name, arguments |-> tool.arguments]
    /\ ret' = IF pc = "raised" THEN ret
              ELSE Ok(<<TextContent([resolved |-> ret.v.resolved,
                                     unresolved |-> ret.v.unresolved])>>)
    /\ tool' = NoFrame
    /\ normalized_keys' = <<>>
    /\ flat_context' = EmptyFlat
    /\ idx' = 0
    /\ resolved' = <<>>
    /\ unresolved' = <<>>
    /\ UNCHANGED <<pc, reading, invoked, enabled_tools>>

\* a faulty variant: the configuration is not consulted
is_enabledAlways(tool_group) == TRUE

\* config.is_enabled(tool_group)
is_enabled(tool_group) == tool_group \in enabled_tools

\* the if/elif chain of call_tool, in order: the names a branch takes, the
\* tool group it asks the configuration for, the text of its refusal and the
\* handler it awaits
Route(prefix, exact, group, label, handler) ==
    [prefix |-> Chars(prefix), exact |-> exact, group |-> Chars(group),
     label |-> Chars(label), handler |-> handler]

Routes ==
    << Route("logs_", {}, "logs", "Logs", "handle_logs_tool"),
       Route("debug_", {}, "debug", "Debug", "handle_debug_tool"),
       Route("health_", {}, "health", "Health", "handle_health_tool"),
       Route("tests_", {Chars("run_tests")}, "tests", "Tests", "handle_tests_tool"),
       Route("db_", {}, "db", "DB", "handle_db_tool"),
       Route("datetime_", {}, "datetime", "Datetime", "handle_datetime_tool"),
       Route("math_", {}, "math", "Math", "handle_math_tool"),
       Route("unit_", {}, "conversion", "Conversion", "handle_conversion_tool"),
       Route("command_", {}, "command", "Command", "handle_command_tool") >>

\* the branches whose condition the name satisfies
Taken(name) ==
    {i \in 1..Len(Routes) : name \in Routes[i].exact \/ StartsWith(name, Routes[i].prefix)}

\* what a handler of another tool group returns (those tools are not modelled)
HandlerOutput(handler, name) == <<TextContent(<<handler, name>>)>>

\* call_tool (lines 73-125)
RouteCall(name, arguments) ==
    LET Dispatch(route) ==
            IF ~is_enabled(route.group)
            THEN /\ invoked' = <<>>
                 /\ ToolReturns("call_tool", name, arguments,
                                <<TextContent(route.label \o Chars(" tools are not enabled"))>>,
                                reading)
            ELSE /\ invoked' = <<route.handler>>
                 /\ IF route.handler = "handle_datetime_tool"
                    THEN Await("call_tool", name, arguments)
                    ELSE ToolReturns("call_tool", name, arguments,
                                     HandlerOutput(route.handler, name), reading)
    IN  IF Taken(name) = {}
        THEN /\ invoked' = <<>>
             /\ ToolReturns("call_tool", name, arguments,
                            <<TextContent(Chars("Unknown tool: ") \o name)>>, reading)
        ELSE Dispatch(Routes[CHOOSE i \in Taken(name) : \A j \in Taken(name) : i <= j])

CallTool ==
    \E name \in ToolNames, arguments \in ToolArguments :
        /\ pc = "idle"
        /\ RouteCall(name, arguments)
        /\ UNCHANGED enabled_tools

\* the server is started with another JARVIS_MCP_TOOLS (config.py, line 168)
FromEnv ==
    \E tools_str \in ToolsEnvInputs :
        /\ pc = "idle"
        /\ enabled_tools' = from_env(tools_str)
        /\ UNCHANGED <<op, pc, args, normalized_keys, flat_context, idx, resolved,
                       unresolved, ret, reading, tool, invoked>>

ServerNext ==
    \/ FromEnv
    \/ CallHandleDatetimeTool
    \/ CallTool
    \/ HandleDatetimeTool
    \/ LoopStep
    \/ Combine
    \/ Dedup
    \/ ToolReturn
    \/ Return

ServerSpec == Init /\ [][ServerNext]_vars

\* the generator alone, over the days of the calendar study
SnapshotNext ==
    \/ CallGenerateOnReferenceDate
    \/ BuildDateContext
    \/ Return

SnapshotSpec == Init /\ [][SnapshotNext]_vars

(***************************************************************************)
(* Properties of resolve_date_keys                                         *)
(***************************************************************************)

\* the elements of a sequence
Range(seq) == {seq[i] : i \in 1..Len(seq)}

\* resolve_date_keys has returned
ResolverDone == op = "resolve_date_keys" /\ pc = "done"

\* a reserved time-of-day modifier token, as the specification lists them
ReservedModifier(key) ==
    \/ key \in FixedModifiers
    \/ Len(key) >= 3 /\ SubSeq(key, 1, 3) = <<"a", "t", "_">>

\* the key resolves to a scalar instant of the flattened table
ScalarKey(key) == key \in DOMAIN flat_context /\ flat_context[key].kind = "str"

\* the key fits in_<N>_(minutes|hours|days)[_<M>_minutes]
RelativeGrammar(key) == RELATIVE_TIME_PATTERN(key).ok

\* the context gives no usable reference instant
NoReference(date_context) ==
    \/ NowStr(date_context).tag = "none"
    \/ NowStr(date_context).tag = "ok" /\ ~IsoParses(ReplaceZ(NowStr(date_context).v))

\* C1: for a key list with a date key D (no modifier token itself) that
\* resolves to a scalar instant and a reserved modifier T, the resolved list
\* returned holds the combined instant
\* apply_time_modifier(value(D), T) and, when the two differ, does not hold
\* the bare instant value(D).
C1_CombinationSupersedes ==
    ResolverDone =>
        \A i, j \in 1..Len(normalized_keys) :
            LET Superseded(base, combined) ==
                    combined.tag = "ok" =>
                        /\ combined.v \in Range(ret.v.resolved)
                        /\ combined.v # base => base \notin Range(ret.v.resolved)
            IN  (/\ ScalarKey(normalized_keys[i])
                 /\ ~ReservedModifier(normalized_keys[i])
                 /\ ReservedModifier(normalized_keys[j])) =>
                    Superseded(flat_context[normalized_keys[i]].v,
                               apply_time_modifier(flat_context[normalized_keys[i]].v,
                                                   normalized_keys[j]))

\* C2: resolve_date_keys never raises, whatever string keys it is given
\* against a well-formed context.
C2_NeverRaises == ~(op = "resolve_date_keys" /\ pc = "raised")

C4_UnknownKeysReported ==
    LET Unknown(key) ==
            /\ ~RelativeGrammar(key)
            /\ key \notin DOMAIN flat_context
            /\ ~ReservedModifier(key)
    IN  /\ (op = "resolve_date_keys" /\ args.date_keys # <<>>) =>
               SelectSeq(unresolved, Unknown)
                   = SelectSeq(SubSeq(normalized_keys, 1, idx - 1), Unknown)
        /\ ResolverDone =>
               /\ SelectSeq(ret.v.unresolved, Unknown) = SelectSeq(normalized_keys, Unknown)
               /\ (\A i \in 1..Len(normalized_keys) : Unknown(normalized_keys[i])) =>
                      ret.v = [resolved |-> <<>>, unresolved |-> normalized_keys]

\* a call with a malformed in_ key and an unknown key has returned both, in order
C4_Witness ==
    /\ ResolverDone
    /\ normalized_keys = <<Chars("in_abc_minutes"), Chars("next_fortnight")>>
    /\ ret.v.unresolved = <<Chars("in_abc_minutes"), Chars("next_fortnight")>>
    /\ ret.v.resolved = <<>>

\* C5: a reserved modifier token is never in unresolved; with no entry in the
\* flattened table and no date key to combine with, it adds nothing to
\* resolved either.
C5_ModifiersNeverUnresolved ==
    ResolverDone =>
        /\ \A i \in 1..Len(normalized_keys) :
               ReservedModifier(normalized_keys[i]) =>
                   normalized_keys[i] \notin Range(ret.v.unresolved)
        /\ (\A i \in 1..Len(normalized_keys) :
               ReservedModifier(normalized_keys[i])
                   /\ normalized_keys[i] \notin DOMAIN flat_context) =>
               ret.v = [resolved |-> <<>>, unresolved |-> <<>>]

\* a call with only modifiers, one of them off the clock, has returned nothing
C5_Witness ==
    /\ ResolverDone
    /\ normalized_keys = <<Chars("morning"), Chars("at_13pm")>>
    /\ args.date_context = CtxTomorrow
    /\ ret.v = [resolved |-> <<>>, unresolved |-> <<>>]

\* the strings one key adds to resolved, and those of a whole key list in order
PerKeyResult(key) ==
    IF resolve_relative_time(key, args.date_context).tag = "ok"
    THEN <<resolve_relative_time(key, args.date_context).v>>
    ELSE LookupResolved(flat_context, key)

RECURSIVE PerKeyResults(_)
PerKeyResults(keys) ==
    IF keys = <<>> THEN <<>> ELSE PerKeyResult(Head(keys)) \o PerKeyResults(Tail(keys))

\* C6: the resolved list returned holds no string twice, and its order is the
\* first-occurrence order of the undeduplicated sequence, which is the per-key
\* results in input order followed by the combined date+time results.
C6_UniqueFirstOccurrence ==
    ResolverDone =>
        LET First(x) == CHOOSE i \in 1..Len(resolved) :
                            resolved[i] = x /\ \A j \in 1..(i - 1) : resolved[j] # x
            InOrder(out) ==
                /\ \A a, b \in 1..Len(out) : a # b => out[a] # out[b]
                /\ Range(out) = Range(resolved)
                /\ \A a, b \in 1..Len(out) : a < b => First(out[a]) < First(out[b])
        IN  /\ InOrder(ret.v.resolved)
            /\ args.date_keys # <<>> =>
                   resolved = PerKeyResults(normalized_keys)
                                  \o Combination(normalized_keys, flat_context).v

\* a call whose undeduplicated sequence held an instant twice has returned;
\* a combined instant follows the per-key ones
C6_Witness ==
    /\ ResolverDone
    /\ normalized_keys = <<Chars("at_3_30pm"), Chars("at_3_30pm")>>
    /\ args.date_context = SnapshotUTC
    /\ Len(resolved) = 3
    /\ ret.v.resolved = <<Iso(2025, 1, 15, 15, 30, 0, "Z")>>

(***************************************************************************)
(* Properties of resolve_relative_time                                     *)
(***************************************************************************)

\* the instant `days` days and `minutes` minutes after now, in UTC with a Z
ShiftedUtc(now, days, minutes) ==
    LET Stamp(ymd, minute_of_day) ==
            Iso(ymd.y, ymd.mo, ymd.d, minute_of_day \div 60, minute_of_day % 60, now.s, "Z")
        At(total) == Stamp(ord2ymd(Ordinal(now) + days + (total \div 1440)), total % 1440)
    IN  At(now.h * 60 + now.mi - now.off + minutes)

\* the call returned now + n units + m minutes
ReturnsShifted(now, n, unit, m) ==
    /\ ret.tag = "ok"
    /\ ret.v = ShiftedUtc(now,
                          IF unit = Chars("days") THEN n ELSE 0,
                          (IF unit = Chars("hours") THEN 60 * n
                           ELSE IF unit = Chars("minutes") THEN n ELSE 0) + m)

\* C7: for a key in_<N>_<unit>[_<M>_minutes] and a context with a parseable
\* reference instant R, resolve_relative_time returns exactly R + N units
\* (+ M minutes), in UTC with second precision and a trailing Z, for all N, M
\* and units.
C7_ExactOffset ==
    (op = "resolve_relative_time" /\ pc \in {"done", "raised"}
        /\ ~NoReference(args.date_context)) =>
        LET Holds(now) ==
                \A n \in AmountInputs, unit \in UnitWords :
                    /\ args.key = RelativeKey(n, unit) => ReturnsShifted(now, n, unit, 0)
                    /\ \A m \in ExtraInputs :
                           args.key = CompoundKey(n, unit, m) =>
                               ReturnsShifted(now, n, unit, m)
        IN  Holds(fromisoformat(ReplaceZ(NowStr(args.date_context).v)))

(***************************************************************************)
(* Properties of apply_time_modifier and parse_time_string                 *)
(***************************************************************************)

\* apply_time_modifier has returned for a base written in UTC and a fixed name
FixedModifierApplied ==
    /\ op = "apply_time_modifier" /\ pc = "done"
    /\ args.modifier \in FixedModifiers
    /\ args.base_datetime.sfx \in {"Z", "+00:00"}

\* the hours of the generator's named slots (specification, section 4.1)
SlotHour(modifier) ==
    CASE modifier = Chars("morning") -> 7 [] modifier = Chars("afternoon") -> 14
      [] modifier = Chars("evening") -> 19 [] modifier = Chars("night") -> 20
      [] modifier = Chars("noon") -> 12 [] modifier = Chars("midnight") -> 0

\* the hours of the modifier's unit tests
TestedHour(modifier) ==
    CASE modifier = Chars("morning") -> 7 [] modifier = Chars("afternoon") -> 13
      [] modifier = Chars("evening") -> 18 [] modifier = Chars("night") -> 21
      [] modifier = Chars("noon") -> 12 [] modifier = Chars("midnight") -> 0

\* the flattened table of the snapshot generated for a UTC user
FlatUTC == flatten_date_context(SnapshotUTC)

\* the pre-computed time expression of a fixed name on the snapshot's today
TodaySlotKey(modifier) ==
    CASE modifier = Chars("morning") -> Chars("this_morning")
      [] modifier = Chars("afternoon") -> Chars("this_afternoon")
      [] modifier = Chars("evening") -> Chars("this_evening")
      [] modifier = Chars("night") -> Chars("tonight")
      [] modifier = Chars("noon") -> Chars("at_noon")
      [] modifier = Chars("midnight") -> Chars("at_midnight")

\* the fixed names whose hour is the same in both tables
AgreeingModifiers == {Chars("morning"), Chars("noon"), Chars("midnight")}

\* C8 as stated: a fixed modifier name sets the time of day to the value of
\* the generator's slot table (07, 14, 19, 20, 12, 00), seconds zeroed.
C8_SlotTableValues ==
    FixedModifierApplied =>
        /\ ret.tag = "ok"
        /\ ret.v.h = SlotHour(args.modifier) /\ ret.v.mi = 0 /\ ret.v.s = 0

\* C8 as amended: a fixed modifier name sets the time of day to 07, 13, 18, 21,
\* 12, 00 (morning, afternoon, evening, night, noon, midnight), seconds zeroed;
\* so for a snapshot generated in UTC a date+modifier combination equals the
\* pre-computed time expression of the slot for morning, noon and midnight
\* only: the afternoon and evening expressions are one hour later, the night
\* expression one hour earlier.
C8_ModifierAgainstSlot ==
    /\ (FixedModifierApplied /\ args.base_datetime = FlatUTC[Chars("today")].v) =>
           /\ ret.tag = "ok"
           /\ ret.v.mi = 0 /\ ret.v.s = 0
           /\ ret.v = FlatUTC[TodaySlotKey(args.modifier)].v
                  <=> args.modifier \in AgreeingModifiers
           /\ ret.v.h - SlotHour(args.modifier) =
                  CASE args.modifier \in {Chars("afternoon"), Chars("evening")} -> 0 - 1
                    [] args.modifier = Chars("night") -> 1
                    [] OTHER -> 0
    /\ (ResolverDone /\ args.date_context = SnapshotUTC) =>
           /\ normalized_keys = <<Chars("tomorrow"), Chars("morning")>> =>
                  FlatUTC[Chars("tomorrow_morning")].v \in Range(ret.v.resolved)
           /\ normalized_keys = <<Chars("tomorrow"), Chars("afternoon")>> =>
                  /\ FlatUTC[Chars("tomorrow_afternoon")].v \notin Range(ret.v.resolved)
                  /\ Iso(2025, 1, 16, 13, 0, 0, "Z") \in Range(ret.v.resolved)

\* "afternoon" was applied to the snapshot's today: 13:00, the slot says 14:00
C8_Witness ==
    /\ FixedModifierApplied
    /\ args.base_datetime = FlatUTC[Chars("today")].v
    /\ args.modifier = Chars("afternoon")
    /\ ret = Ok(Iso(2025, 1, 15, 13, 0, 0, "Z"))
    /\ FlatUTC[Chars("this_afternoon")].v = Iso(2025, 1, 15, 14, 0, 0, "Z")

\* C9: for a base instant given in UTC, apply_time_modifier returns the same
\* calendar date at 07:00 (morning), 13:00 (afternoon), 18:00 (evening), 21:00
\* (night), 12:00 (noon), 00:00 (midnight), with a trailing Z; a base written
\* with +00:00 gives the same result as one written with Z.
C9_FixedTimesInUTC ==
    FixedModifierApplied =>
        ret = Ok(Iso(args.base_datetime.y, args.base_datetime.mo, args.base_datetime.d,
                     TestedHour(args.modifier), 0, 0, "Z"))

\* "night" was applied to a base written with +00:00 and with seconds
C9_Witness ==
    /\ FixedModifierApplied
    /\ args.base_datetime = Iso(2025, 1, 16, 10, 30, 45, "+00:00")
    /\ args.modifier = Chars("night")
    /\ ret = Ok(Iso(2025, 1, 16, 21, 0, 0, "Z"))

\* the 24-hour value of a 12-hour clock reading
Clock24(h, ampm) ==
    IF ampm = AM THEN (IF h = 12 THEN 0 ELSE h) ELSE (IF h = 12 THEN 12 ELSE h + 12)

\* C10: parse_time_string maps <h>[_<mm>](am|pm), h in 1..12 and mm in
\* 00..59, to (hour, minute): 12am gives 0, 12pm gives 12, another pm hour
\* h + 12, another am hour h, a missing minute group minute 0; the hour is in
\* 0..23; a string matching neither form gives (0, 0).
C10_TwelveHourClock ==
    (op = "parse_time_string" /\ pc = "done") =>
        /\ \A h \in 1..12, ampm \in {AM, PM} :
               /\ args.time_str = HourOnlyString(h, ampm) =>
                      /\ ret.v = [hour |-> Clock24(h, ampm), minute |-> 0]
                      /\ ret.v.hour \in 0..23
               /\ \A mm \in 0..59 :
                      args.time_str = WithMinutesString(h, mm, ampm) =>
                          /\ ret.v = [hour |-> Clock24(h, ampm), minute |-> mm]
                          /\ ret.v.hour \in 0..23
        /\ args.time_str \in OtherTimeStrings => ret.v = [hour |-> 0, minute |-> 0]

\* "12_30am" was parsed: half past midnight
C10_Witness ==
    /\ op = "parse_time_string" /\ pc = "done"
    /\ args.time_str = Chars("12_30am")
    /\ ret.v = [hour |-> 0, minute |-> 30]

(***************************************************************************)
(* Properties of normalize_date_key                                        *)
(***************************************************************************)

\* normalize_date_key has returned
NormalizeDone == op = "normalize_date_key" /\ pc = "done"

\* C11: normalize_date_key is idempotent: normalizing the key it returned
\* gives that key again.
C11_Idempotent ==
    NormalizeDone => normalize_date_key(ret.v) = ret.v

\* a call whose raw key was changed by the normalization in every respect:
\* trimmed, lowercased, a whitespace run and a colon replaced
C11_Witness ==
    /\ NormalizeDone
    /\ args.raw = <<" ", "T", "\t", ":">>
    /\ ret.v = <<"t", "_", "_">>

UpperChars == {"A", "F", "L", "M", "N", "O", "P", "R", "S", "T", "W"}

\* the number of positions of s that satisfy Test
CountOf(s, Test(_)) == Cardinality({i \in 1..Len(s) : Test(s[i])})

\* the number of maximal runs of whitespace in s
SpaceRuns(s) ==
    Cardinality({i \in 1..Len(s) : IsSpace(s[i]) /\ (i = 1 \/ ~IsSpace(s[i - 1]))})

IsColon(c) == c = ":"

IsUnderscore(c) == c = "_"

IsSeparator(c) == IsSpace(c) \/ IsColon(c)

IsPlain(c) == ~IsSeparator(c) /\ ~IsUnderscore(c)

\* the result holds no whitespace, no colon and no capital
CleanKey(key) ==
    \A i \in 1..Len(key) : ~IsSpace(key[i]) /\ ~IsColon(key[i]) /\ key[i] \notin UpperChars

\* C12 (as the claim states it): the result is clean and, for a raw key that
\* holds no underscore of its own, never holds two consecutive underscores.
C12_SeparatorRunsCollapse ==
    NormalizeDone =>
        /\ CleanKey(ret.v)
        /\ CountOf(args.raw, IsUnderscore) = 0 =>
               \A i \in 1..(Len(ret.v) - 1) : ~(ret.v[i] = "_" /\ ret.v[i + 1] = "_")

\* C12 (amended): the result is clean; its other characters are the lowercased
\* characters of the raw key, in order; and it holds one underscore for every
\* underscore and every colon of the raw key and one for every maximal run of
\* whitespace inside the trimmed key (so a colon next to a colon or to
\* whitespace leaves consecutive underscores).
C12_WhitespaceRunsCollapse ==
    NormalizeDone =>
        /\ CleanKey(ret.v)
        /\ SelectSeq(ret.v, IsPlain) = Lower(SelectSeq(args.raw, IsPlain))
        /\ CountOf(ret.v, IsUnderscore) =
               CountOf(args.raw, IsUnderscore) + CountOf(args.raw, IsColon)
                   + SpaceRuns(Strip(args.raw))

\* a raw key with a colon followed by whitespace: two underscores result
C12_Witness ==
    /\ NormalizeDone
    /\ args.raw = <<"a", ":", " ", "T">>
    /\ ret.v = <<"a", "_", "_", "t">>

(***************************************************************************)
(* Properties of flatten_date_context and of the keys of resolve_date_keys *)
(***************************************************************************)

\* resolve_date_keys has flattened its context
Flattened == op = "resolve_date_keys" /\ args.date_keys # <<>>

\* every key keeps the value of the first assignment made to it
FirstAssignmentKept(assignments, flat) ==
    \A i \in 1..Len(assignments) :
        (\A j \in 1..(i - 1) : assignments[j].k # assignments[i].k) =>
            flat[assignments[i].k] = assignments[i].v

\* every key of relative_dates with an instant keeps the value of that entry
RelativeDatesKept(date_context, flat) ==
    LET Kept(assignments) ==
            \A i \in 1..Len(assignments) : flat[assignments[i].k] = assignments[i].v
    IN  Kept(RelativeAssignments(Section(date_context, "relative_dates")))

\* C13: in the flattened table a key written by two sections keeps the value
\* of the earlier section, and every relative_dates key of the context keeps
\* the value of its relative_dates entry.
C13_EarlierSectionKept ==
    Flattened =>
        /\ FirstAssignmentKept(FlatAssignments(args.date_context), flat_context)
        /\ RelativeDatesKept(args.date_context, flat_context)

\* the first key of the list that the flattened table holds, scalar or list
FirstTableKey(keys, flat) ==
    FirstOf(keys, {i \in 1..Len(keys) : keys[i] \in DOMAIN flat})

\* every instant of the list, moved to the modifier's time, is in the result
ListCombined(entries, time_key, result) ==
    \A i \in 1..Len(entries) :
        apply_time_modifier(entries[i], time_key).tag = "ok" =>
            apply_time_modifier(entries[i], time_key).v \in Range(result)

\* C14: when the first key found in the flattened table is a list (e.g.
\* this_weekend) and a time modifier key is present, the resolved list
\* returned holds apply_time_modifier(v, modifier) for every instant v of the
\* list.
C14_ListDateKeyCombined ==
    ResolverDone =>
        LET Holds(date_key, time_key) ==
                (/\ date_key.tag = "ok"
                 /\ time_key.tag = "ok"
                 /\ flat_context[date_key.v].kind = "list") =>
                    ListCombined(flat_context[date_key.v].v, time_key.v, ret.v.resolved)
        IN  Holds(FirstTableKey(normalized_keys, flat_context), FirstTimeKey(normalized_keys))

\* an input element that is no str, or is empty once trimmed
Discardable(key) == ~IsStr(key) \/ Strip(key) = <<>>

\* what str() prints for an input element
Printed(key) == IF IsStr(key) THEN key ELSE Tail(key)

\* C15: an input element that is not a str, or that is empty or blank, is
\* discarded: neither it (as given, as printed, or normalized to the empty
\* key) nor anything for it appears in resolved or unresolved.
C15_EmptyKeysDiscarded ==
    ResolverDone =>
        \A i \in 1..Len(args.date_keys) :
            Discardable(args.date_keys[i]) =>
                /\ args.date_keys[i] \notin Range(ret.v.unresolved)
                /\ Printed(args.date_keys[i]) \notin Range(ret.v.unresolved)
                /\ <<>> \notin Range(ret.v.unresolved)
                /\ (\A j \in 1..Len(args.date_keys) : Discardable(args.date_keys[j])) =>
                       ret.v.resolved = <<>> /\ ret.v.unresolved = <<>>

(***************************************************************************)
(* Properties of generate_date_context_object                              *)
(***************************************************************************)

\* generate_date_context_object has returned or raised
GeneratorDone == op = "generate_date_context_object" /\ pc \in {"done", "raised"}

\* the sections of a snapshot
Sections ==
    {"current", "relative_dates", "weekend", "weeks", "months", "years", "weekdays",
     "timezone", "time_expressions"}

\* the argument is the name of a zone the zone database has
Recognized(timezone_str) == timezone_str.py = "str" /\ timezone_str.v \in KnownZones

UtcSecondForm(str) == str.sfx = "Z" /\ IsoParses(ReplaceZ(str))

\* the utc_start_of_day and datetime values of one entry of a snapshot
EntryInstants(entry) == {entry[f] : f \in DOMAIN entry \cap {"utc_start_of_day", "datetime"}}

\* those of a section that maps a key to one entry
ItemInstants(section) == UNION {EntryInstants(section[i].v) : i \in 1..Len(section)}

\* those of a section that maps a key to a list of entries
BucketInstants(section) ==
    UNION {ItemInstants([j \in 1..Len(section[i].v) |-> Item(j, section[i].v[j])]) :
             i \in 1..Len(section)}

\* every instant string of a snapshot
SnapshotInstants(ctx) ==
    EntryInstants(ctx.current) \cup ItemInstants(ctx.relative_dates)
      \cup BucketInstants(ctx.weekend) \cup BucketInstants(ctx.weeks)
      \cup BucketInstants(ctx.months) \cup BucketInstants(ctx.years)
      \cup ItemInstants(ctx.weekdays)
      \cup {ctx.time_expressions[i].v : i \in 1..Len(ctx.time_expressions)}

\* the snapshots of the generator among the contexts given to the resolver
GeneratedContexts == {SnapshotUTC, SnapshotNY}

\* C17: every instant string the date engine produces has the form
\* YYYY-MM-DDTHH:MM:SSZ: the utc_start_of_day, datetime and time_expressions
\* values of a generated snapshot, the results of apply_time_modifier and of
\* resolve_relative_time (whatever offset the base is written with), and the
\* elements of resolved when the context is a generated snapshot
C17_InstantsAreUtcZ ==
    /\ (GeneratorDone /\ ret.tag = "ok") =>
           \A str \in SnapshotInstants(ret.v) : UtcSecondForm(str)
    /\ (op \in {"apply_time_modifier", "resolve_relative_time"} /\ ret.tag = "ok") =>
           UtcSecondForm(ret.v)
    /\ (op = "resolve_date_keys" /\ args.date_context \in GeneratedContexts) =>
           \A i \in 1..Len(resolved) : UtcSecondForm(resolved[i])
    /\ (ResolverDone /\ args.date_context \in GeneratedContexts) =>
           \A i \in 1..Len(ret.v.resolved) : UtcSecondForm(ret.v.resolved[i])

\* a base written with the offset -05:00 came back as the UTC instant
C17_Witness ==
    /\ op = "apply_time_modifier"
    /\ pc = "done"
    /\ args.base_datetime = Iso(2025, 1, 15, 22, 30, 0, "-05:00")
    /\ args.modifier = Chars("morning")
    /\ ret = Ok(Iso(2025, 1, 15, 12, 0, 0, "Z"))

DatetimeToolDone(name) ==
    /\ pc \in {"done", "raised"}
    /\ tool.op = ""
    /\ args.name = Chars(name)
    /\ \/ op = "handle_datetime_tool"
       \/ op = "call_tool" /\ invoked = <<"handle_datetime_tool">>

\* date_keys is missing, is not a list or has more than 100 items, or
\* timezone is given and is not a string of at most 100 characters
Refused(arguments) ==
    \/ arguments.date_keys.py # "list"
    \/ Len(arguments.date_keys.v) > MaxDateKeys
    \/ /\ arguments.timezone.py # "absent"
       /\ arguments.timezone.py # "str" \/ Len(arguments.timezone.v) > MaxTimezoneLength

\* the result is one text holding a JSON object with exactly the given keys
JsonObjectWith(result, keys) ==
    /\ result.tag = "ok"
    /\ Len(result.v) = 1
    /\ result.v[1].type = "text"
    /\ DOMAIN result.v[1].text = keys

\* C19: datetime_resolve returns a JSON error object and resolves nothing
\* when date_keys is missing, is no list or has more than 100 items, or when
\* timezone is no string or is longer than 100 characters; otherwise it
\* returns a JSON object with exactly the keys resolved and unresolved, both
\* empty for an empty date_keys
C19_ErrorOrResult ==
    /\ (tool.op # "" /\ tool.name = Chars("datetime_resolve") /\ Refused(tool.arguments)) =>
           pc = "handler"
    /\ DatetimeToolDone("datetime_resolve") =>
           IF Refused(args.arguments)
           THEN pc = "done" /\ JsonObjectWith(ret, {"error"})
           ELSE /\ pc = "done"
                /\ JsonObjectWith(ret, {"resolved", "unresolved"})
                /\ args.arguments.date_keys.v = <<>> =>
                       ret.v[1].text = [resolved |-> <<>>, unresolved |-> <<>>]

\* the same, for the calls in which resolve_date_keys does not raise
ErrorOrResultUnlessRaised ==
    (pc # "raised") => C19_ErrorOrResult

\* call_tool is running or has returned; the name it was called with
InCallTool == op = "call_tool" \/ tool.op = "call_tool"

CalledName == IF op = "call_tool" THEN args.name ELSE tool.name

\* call_tool has returned this one text
ReturnedText(text) == op = "call_tool" /\ pc = "done" /\ ret = Ok(<<TextContent(text)>>)

\* C20: call_tool invokes at most one handler, and only the handler of the
\* group the name is routed to, and only when the configuration enables that
\* group; a name routed to a disabled group returns the single text
\* "<Group> tools are not enabled" and a name no route takes returns
\* "Unknown tool: <name>", both without invoking a handler
C20_OnlyEnabledHandlers ==
    /\ Len(invoked) <= 1
    /\ InCallTool =>
           /\ Taken(CalledName) = {} =>
                  invoked = <<>> /\ ReturnedText(Chars("Unknown tool: ") \o CalledName)
           /\ \A i \in Taken(CalledName) :
                  IF Routes[i].group \in enabled_tools
                  THEN invoked = <<Routes[i].handler>>
                  ELSE /\ invoked = <<>>
                       /\ ReturnedText(Routes[i].label \o Chars(" tools are not enabled"))
    /\ ~InCallTool => invoked = <<>>

\* datetime_resolve was called while the datetime group is disabled
C20_Witness ==
    /\ op = "call_tool"
    /\ pc = "done"
    /\ args.name = Chars("datetime_resolve")
    /\ Chars("datetime") \notin enabled_tools
    /\ Chars("logs") \in enabled_tools
    /\ invoked = <<>>
    /\ ret = Ok(<<TextContent(Chars("Datetime tools are not enabled"))>>)

(***************************************************************************)
(* Properties of the calendar sections of a snapshot                       *)
(***************************************************************************)

\* the generator has returned a snapshot
SnapshotReturned == GeneratorDone /\ pc = "done" /\ ret.tag = "ok"

\* the dates of the seven entries of a week of the weeks section
WeekDates(ctx, week) ==
    {DictGet(ctx.weeks, Chars(week))[j].date : j \in 1..Len(DictGet(ctx.weeks, Chars(week)))}

\* the entry <prefix><k-th weekday name> of the weekdays section lies in the
\* week and falls on that weekday (Monday is the first name, weekday 0)
WeekdayEntryNamed(ctx, prefix, week, k) ==
    /\ Chars(prefix) \o weekday_names[k] \in DictKeys(ctx.weekdays)
    /\ DictGet(ctx.weekdays, Chars(prefix) \o weekday_names[k]).date \in WeekDates(ctx, week)
    /\ Weekday(DictGet(ctx.weekdays, Chars(prefix) \o weekday_names[k]).date) = k - 1

\* C21: for every weekday name w, weekdays.next_<w> is the date of
\* next_week that falls on weekday w and weekdays.last_<w> is the date of
\* last_week that falls on weekday w, whatever the weekday of the reference
\* instant
C21_WeekdaysNamed ==
    SnapshotReturned =>
        \A k \in 1..7 :
            /\ WeekdayEntryNamed(ret.v, "next_", "next_week", k)
            /\ WeekdayEntryNamed(ret.v, "last_", "last_week", k)

\* the days between two dates
DaysFrom(a, b) == Ordinal(b) - Ordinal(a)

\* the two entries of a weekend of the weekend section
Weekend(ctx, name) == DictGet(ctx.weekend, Chars(name))

\* a Saturday and the Sunday after it, labelled so
SaturdayThenSunday(entries) ==
    /\ Len(entries) = 2
    /\ entries[1].day = Chars("Saturday") /\ Weekday(entries[1].date) = 5
    /\ entries[2].day = Chars("Sunday") /\ Weekday(entries[2].date) = 6
    /\ DaysFrom(entries[1].date, entries[2].date) = 1

\* both entries of the second weekend are those of the first, n days later
WeekendShifted(first, second, n) ==
    /\ Len(first) = 2 /\ Len(second) = 2
    /\ \A j \in 1..2 : /\ DaysFrom(first[j].date, second[j].date) = n
                        /\ second[j].day = first[j].day

\* C22: on every weekday of the reference instant this_weekend is a Saturday
\* and the Sunday after it; it contains today when today is a Saturday or a
\* Sunday and is otherwise the first weekend after today; next_weekend is
\* this_weekend seven days later and last_weekend seven days earlier
C22_WeekendCaseSplit ==
    SnapshotReturned =>
        /\ SaturdayThenSunday(Weekend(ret.v, "this_weekend"))
        /\ IF Weekday(ret.v.current.date_iso) \in {5, 6}
           THEN \E j \in 1..2 : Weekend(ret.v, "this_weekend")[j].date = ret.v.current.date_iso
           ELSE DaysFrom(ret.v.current.date_iso, Weekend(ret.v, "this_weekend")[1].date) \in 1..5
        /\ WeekendShifted(Weekend(ret.v, "this_weekend"), Weekend(ret.v, "next_weekend"), 7)
        /\ WeekendShifted(Weekend(ret.v, "this_weekend"), Weekend(ret.v, "last_weekend"), 0 - 7)

\* a snapshot taken on a Sunday: the weekend began the day before
C22_Witness ==
    /\ SnapshotReturned
    /\ reading = DT(2025, 1, 19, 10, 0, 0, 0)
    /\ args.timezone_str = Py("str", "UTC")
    /\ Weekend(ret.v, "this_weekend")[1].date = [y |-> 2025, mo |-> 1, d |-> 18]
    /\ Weekend(ret.v, "this_weekend")[2].date = ret.v.current.date_iso
    /\ Weekend(ret.v, "last_weekend")[1].date = [y |-> 2025, mo |-> 1, d |-> 11]

\* a week of the weeks section
Week(ctx, name) == DictGet(ctx.weeks, Chars(name))

\* seven consecutive dates from a Sunday to a Saturday
SundayToSaturday(entries) ==
    /\ Len(entries) = 7
    /\ Weekday(entries[1].date) = 6
    /\ Weekday(entries[7].date) = 5
    /\ \A j \in 1..7 : DaysFrom(entries[1].date, entries[j].date) = j - 1

\* the dates of the second week are those of the first, n days later
WeekShifted(first, second, n) ==
    /\ Len(first) = 7 /\ Len(second) = 7
    /\ \A j \in 1..7 : DaysFrom(first[j].date, second[j].date) = n

\* the flattened table has this_<weekday> for all seven names, and the one
\* of today's weekday holds the value of today
ThisWeekdayKeys(flat, today_weekday) ==
    /\ \A k \in 1..7 : Chars("this_") \o weekday_names[k] \in DOMAIN flat
    /\ Chars("today") \in DOMAIN flat
    /\ flat[Chars("this_") \o weekday_names[today_weekday + 1]] = flat[Chars("today")]

\* C23: on every weekday of the reference instant weeks.this_week lists
\* seven consecutive dates from a Sunday to a Saturday, each labelled with
\* its weekday name, today's date among them; next_week and last_week are
\* this_week seven days later and earlier; flattening gives a this_<weekday>
\* key for each of the seven names, this_<today's weekday> being today
C23_SundayWeek ==
    SnapshotReturned =>
        /\ SundayToSaturday(Week(ret.v, "this_week"))
        /\ \A j \in 1..7 :
               Week(ret.v, "this_week")[j].day =
                   DayNames[Weekday(Week(ret.v, "this_week")[j].date) + 1]
        /\ \E j \in 1..7 : Week(ret.v, "this_week")[j].date = ret.v.current.date_iso
        /\ WeekShifted(Week(ret.v, "this_week"), Week(ret.v, "next_week"), 7)
        /\ WeekShifted(Week(ret.v, "this_week"), Week(ret.v, "last_week"), 0 - 7)
        /\ ThisWeekdayKeys(flatten_date_context(ret.v), ret.v.current.weekday_number)

\* a New York snapshot of a Wednesday: the week began on Sunday the 12th
C23_Witness ==
    /\ SnapshotReturned
    /\ reading = DT(2025, 1, 15, 10, 0, 0, 0)
    /\ args.timezone_str = Py("str", "America/New_York")
    /\ Week(ret.v, "this_week")[1].date = [y |-> 2025, mo |-> 1, d |-> 12]
    /\ Week(ret.v, "this_week")[4].date = ret.v.current.date_iso
    /\ flatten_date_context(ret.v)[Chars("this_wednesday")]
           = Scalar(Iso(2025, 1, 15, 5, 0, 0, "Z"))

\* a month as a count of months, and back
MonthIndex(date) == date.y * 12 + (date.mo - 1)

MonthOfIndex(n) == [y |-> n \div 12, mo |-> (n % 12) + 1]

\* the two entries are the first and the last day of the month
MonthSpan(entries, month) ==
    /\ Len(entries) = 2
    /\ entries[1].date = [y |-> month.y, mo |-> month.mo, d |-> 1]
    /\ entries[2].date = [y |-> month.y, mo |-> month.mo, d |-> DaysInMonth(month.y, month.mo)]

\* a bucket of the months section
Month(ctx, name) == DictGet(ctx.months, Chars(name))

\* C24: for every reference date months.this_month is the first and the
\* last day of the reference month, months.next_month those of the
\* following calendar month and months.last_month those of the preceding
\* one, whatever the lengths of the months and across the turn of the year
C24_MonthBounds ==
    SnapshotReturned =>
        /\ MonthSpan(Month(ret.v, "this_month"), MonthOfIndex(MonthIndex(ret.v.current.date_iso)))
        /\ MonthSpan(Month(ret.v, "next_month"),
                     MonthOfIndex(MonthIndex(ret.v.current.date_iso) + 1))
        /\ MonthSpan(Month(ret.v, "last_month"),
                     MonthOfIndex(MonthIndex(ret.v.current.date_iso) - 1))

\* a snapshot taken on 29 February 2024
C24_Witness ==
    /\ SnapshotReturned
    /\ reading = DT(2024, 2, 29, 12, 0, 0, 0)
    /\ args.timezone_str = Py("str", "UTC")
    /\ Month(ret.v, "this_month")[2].date = [y |-> 2024, mo |-> 2, d |-> 29]
    /\ Month(ret.v, "next_month")[2].date = [y |-> 2024, mo |-> 3, d |-> 31]
    /\ Month(ret.v, "last_month")[1].date = [y |-> 2024, mo |-> 1, d |-> 1]

\* a bucket of the years section
Year(ctx, name) == DictGet(ctx.years, Chars(name))

\* the two entries are 1 January and 31 December of the year
YearSpan(entries, y) ==
    /\ Len(entries) = 2
    /\ entries[1].date = [y |-> y, mo |-> 1, d |-> 1]
    /\ entries[2].date = [y |-> y, mo |-> 12, d |-> 31]

\* C25, as stated: for every reference date years.this_year, next_year and
\* last_year are 1 January and 31 December of the reference year, of the
\* calendar year after it and of the calendar year before it, also on the
\* first and the last day of a leap year
C25_CalendarYears ==
    SnapshotReturned =>
        /\ YearSpan(Year(ret.v, "this_year"), ret.v.current.date_iso.y)
        /\ YearSpan(Year(ret.v, "next_year"), ret.v.current.date_iso.y + 1)
        /\ YearSpan(Year(ret.v, "last_year"), ret.v.current.date_iso.y - 1)

\* the year of the day 365 days after (n = 1) or before (n = -1) the date
YearAway(date, n) ==
    IF IsLeap(date.y) /\ n = 1 /\ date.mo = 1 /\ date.d = 1 THEN date.y
    ELSE IF IsLeap(date.y) /\ n = 0 - 1 /\ date.mo = 12 /\ date.d = 31 THEN date.y
    ELSE date.y + n

\* C25, amended: this_year is the reference year; next_year and last_year
\* are the years of the days 365 days after and before the reference date,
\* that is the calendar years after and before it except on 1 January of a
\* leap year (next_year is the reference year) and on 31 December of a leap
\* year (last_year is the reference year)
C25_YearsBy365Days ==
    SnapshotReturned =>
        /\ YearSpan(Year(ret.v, "this_year"), ret.v.current.date_iso.y)
        /\ YearSpan(Year(ret.v, "next_year"), YearAway(ret.v.current.date_iso, 1))
        /\ YearSpan(Year(ret.v, "last_year"), YearAway(ret.v.current.date_iso, 0 - 1))

\* a snapshot taken on 1 January 2024: next_year is 2024 again
C25_Witness ==
    /\ SnapshotReturned
    /\ reading = DT(2024, 1, 1, 12, 0, 0, 0)
    /\ args.timezone_str = Py("str", "UTC")
    /\ ret.v.current.date_iso = [y |-> 2024, mo |-> 1, d |-> 1]
    /\ YearSpan(Year(ret.v, "next_year"), 2024)
    /\ YearSpan(Year(ret.v, "last_year"), 2023)

\* a date of a snapshot with the utc_start_of_day given for it
Dated(date, utc_start_of_day) == [date |-> date, utc_start_of_day |-> utc_start_of_day]

\* the dated entries of a section that maps a key to one entry
DatedItems(section) ==
    {Dated(section[i].v.date, section[i].v.utc_start_of_day) :
        i \in {j \in 1..Len(section) : Has(section[j].v, "utc_start_of_day")}}

\* the dated entries of a section that maps a key to a list of entries
DatedBuckets(section) ==
    UNION {DatedItems([j \in 1..Len(section[i].v) |-> Item(j, section[i].v[j])]) :
             i \in 1..Len(section)}

\* every date of a snapshot that has a utc_start_of_day
DatedEntries(ctx) ==
    {Dated(ctx.current.date_iso, ctx.current.utc_start_of_day)}
      \cup DatedItems(ctx.relative_dates) \cup DatedItems(ctx.weekdays)
      \cup DatedBuckets(ctx.weekend) \cup DatedBuckets(ctx.weeks)
      \cup DatedBuckets(ctx.months) \cup DatedBuckets(ctx.years)

\* midnight of the date in the zone, as a UTC instant, with the offset the
\* zone has on that date
LocalMidnightInUTC(zone, date) ==
    StrftimeZ(ToUTC(DT(date.y, date.mo, date.d, 0, 0, 0, ZoneOffsetAtLocalMidnight(zone, date))))

\* C26: every utc_start_of_day of a snapshot is midnight of the entry's
\* date in the resolved timezone, converted to UTC with the offset in effect
\* in that timezone on that date, so entries of different sections with the
\* same date have the same utc_start_of_day
C26_StartOfDayOfItsDate ==
    SnapshotReturned =>
        /\ \A e \in DatedEntries(ret.v) :
               e.utc_start_of_day = LocalMidnightInUTC(ret.v.timezone.user_timezone, e.date)
        /\ \A e, f \in DatedEntries(ret.v) :
               e.date = f.date => e.utc_start_of_day = f.utc_start_of_day

\* the same, for the zones of the model that never change their offset
StartOfDayInFixedZones ==
    (SnapshotReturned /\ ret.v.timezone.user_timezone # "America/New_York") =>
        \A e \in DatedEntries(ret.v) :
            e.utc_start_of_day = LocalMidnightInUTC(ret.v.timezone.user_timezone, e.date)

(***************************************************************************)
(* Properties of flatten_date_context on contexts that are not well formed *)
(***************************************************************************)

FlattenEnded == op = "flatten_date_context" /\ pc \in {"done", "raised"}

\* what flattening gives when every section of the wrong type is skipped
SkippingMalformed(value) ==
    IF value.py # "dict" THEN EmptyFlat
    ELSE flatten_date_context(WellFormedSections(value))

\* C27: flatten_date_context never raises: a context that is not a dict
\* gives the empty table, and a section that is a list, a str or None
\* instead of a dict is skipped while the other sections are flattened.
C27_FlattenIsTotal ==
    FlattenEnded =>
        /\ pc = "done"
        /\ ret = Ok(SkippingMalformed(args.nested_context))

\* the same holds of every context whose "weeks" section is a dict or absent
FlattenTotalUnlessWeeksMalformed ==
    (FlattenEnded /\ "weeks" \notin args.nested_context.malformed) =>
        /\ pc = "done"
        /\ ret = Ok(SkippingMalformed(args.nested_context))

\* a malformed "weeks" section beside well-formed ones raises
WeeksMalformedRaises ==
    (FlattenEnded /\ args.nested_context.py = "dict"
                  /\ "weeks" \in args.nested_context.malformed) =>
        /\ pc = "raised"
        /\ ret = Raise("AttributeError")

(***************************************************************************)
(* Properties of the date + time combination against generated snapshots   *)
(***************************************************************************)

\* the seconds from the UTC instant string a to the UTC instant string b
SecondsBetween(a, b) ==
    (Ordinal(fromisoformat(ReplaceZ(b))) - Ordinal(fromisoformat(ReplaceZ(a)))) * 86400
        + SecOfDay(fromisoformat(ReplaceZ(b))) - SecOfDay(fromisoformat(ReplaceZ(a)))

\* the UTC instant of the wall-clock time h:mi of the local day that starts
\* at the UTC instant start_of_day (a day without a clock change)
WallClockOn(start_of_day, h, mi) ==
    IsoformatZ(Plus(fromisoformat(ReplaceZ(start_of_day)), TdMinutes(h * 60 + mi)))

\* key names a local calendar day: a str entry of the table that is not a
\* time expression
DayKey(key) == ScalarKey(key) /\ ~IsTimeModifier(key)

\* key is a modifier naming a time of day that exists
ClockModifier(key) ==
    /\ IsTimeModifier(key)
    /\ ModifierTime(key).known
    /\ ~ReplaceTimeFails(ModifierTime(key).hour, ModifierTime(key).minute)

\* the call resolved [D, T] against a generated snapshot
DayThenModifier ==
    /\ ResolverDone
    /\ args.date_context \in GeneratedContexts
    /\ Len(normalized_keys) = 2
    /\ DayKey(normalized_keys[1])
    /\ ClockModifier(normalized_keys[2])

\* the combined instants are the wall-clock time of T on the local day of D
OnLocalDay(day, modifier, combined) ==
    /\ combined = <<WallClockOn(day, ModifierTime(modifier).hour, ModifierTime(modifier).minute)>>
    /\ \A i \in 1..Len(combined) :
           SecondsBetween(day, combined[i]) \in 0..86399
    /\ \A i \in 1..Len(combined) : combined[i] \in Range(ret.v.resolved)

\* C28: in a snapshot of any timezone, a scalar date key D (the UTC start of
\* a local day) combined with a time modifier T gives the instant of the
\* local wall-clock time T on that local day, within 24 hours of value(D).
C28_ModifierOnLocalDay ==
    DayThenModifier =>
        OnLocalDay(flat_context[normalized_keys[1]].v, normalized_keys[2],
                   Combination(normalized_keys, flat_context).v)

\* the same holds of the snapshots generated for a UTC user
ModifierOnLocalDayInUTC ==
    (DayThenModifier /\ args.date_context.timezone.user_timezone = "UTC") =>
        OnLocalDay(flat_context[normalized_keys[1]].v, normalized_keys[2],
                   Combination(normalized_keys, flat_context).v)

\* the call resolved a day key D and a clock modifier T, in either order,
\* against a generated snapshot
DayAndModifier(day, modifier) ==
    /\ ResolverDone
    /\ args.date_context \in GeneratedContexts
    /\ normalized_keys \in {<<day, modifier>>, <<modifier, day>>}
    /\ DayKey(day)
    /\ ClockModifier(modifier)

\* the instants of a key's own entry in the table
OwnEntry(key) ==
    IF key \notin DOMAIN flat_context THEN {}
    ELSE IF flat_context[key].kind = "str" THEN {flat_context[key].v}
    ELSE Range(flat_context[key].v)

\* what [D, T] resolves to whatever the order: the entries of both keys and
\* the modifier applied to D's date
OrderFree(day, modifier) ==
    OwnEntry(day) \cup OwnEntry(modifier)
        \cup {apply_time_modifier(flat_context[day].v, modifier).v}

\* C29: the date + time combination does not depend on the order of the
\* keys: [D, T] and [T, D] resolve to the same set of instants, and in both
\* the combined instant is T applied to D's date, also when T is an at_<time>
\* token with its own time_expressions entry.
C29_OrderIndependent ==
    \A day, modifier \in Range(normalized_keys) :
        DayAndModifier(day, modifier) =>
            Range(ret.v.resolved) = OrderFree(day, modifier)

\* the same holds of the modifiers that have no entry of their own
OrderIndependentWithoutOwnEntry ==
    \A day, modifier \in Range(normalized_keys) :
        (DayAndModifier(day, modifier) /\ modifier \notin DOMAIN flat_context) =>
            Range(ret.v.resolved) = OrderFree(day, modifier)

\* and of every modifier that comes after the day key
DayFirstCombinesWithDay ==
    \A day, modifier \in Range(normalized_keys) :
        (DayAndModifier(day, modifier) /\ normalized_keys[1] = day) =>
            Range(ret.v.resolved) = OrderFree(day, modifier)

\* the call resolved the one-element list [K] against a generated snapshot
SingleKey ==
    /\ ResolverDone
    /\ args.date_context \in GeneratedContexts
    /\ Len(normalized_keys) = 1

\* the instants K stands for: its relative-offset result, else its entry
KeyInstants(key, relative_result) ==
    IF relative_result.tag = "ok" THEN {relative_result.v} ELSE OwnEntry(key)

\* C30: a single key is never combined with itself: resolving [K] against
\* a snapshot of any timezone gives exactly the instants of K's entry (or
\* K's relative-offset result); ["at_3pm"]-like keys give the one
\* pre-computed instant of the time expression.
C30_SingleKeyNoSelfCombination ==
    SingleKey =>
        Range(ret.v.resolved)
            = KeyInstants(normalized_keys[1],
                          resolve_relative_time(normalized_keys[1], args.date_context))

\* the same holds of every key that is not a time expression of the table
SingleKeyExactUnlessTimeExpression ==
    (SingleKey /\ ~(IsTimeModifier(normalized_keys[1]) /\ ScalarKey(normalized_keys[1]))) =>
        Range(ret.v.resolved)
            = KeyInstants(normalized_keys[1],
                          resolve_relative_time(normalized_keys[1], args.date_context))

\* a time expression alone is combined with itself: the result holds its
\* entry and the modifier applied to that entry
TimeExpressionSelfCombined ==
    (SingleKey /\ IsTimeModifier(normalized_keys[1]) /\ ScalarKey(normalized_keys[1])) =>
        Range(ret.v.resolved)
            = OwnEntry(normalized_keys[1])
                \cup {apply_time_modifier(flat_context[normalized_keys[1]].v,
                                          normalized_keys[1]).v}

====
